---- MODULE Spec2Model ----
(***************************************************************************)
(* Verification model of whisprd: the streaming segmentation and           *)
(* deduplication loop (WhisperTranscriber), the command recognizer         *)
(* (CommandProcessor) and the orchestrating engine (DictationEngine).      *)
(*                                                                         *)
(* A text is a sequence of one-character strings.  The specifications       *)
(* share the variables; each leaves the other groups at their idle value.  *)
(*   SpecDedup  : _is_new_content applied to bounded pairs of texts        *)
(*   SpecCmd    : process_text + extract_clean_text on bounded texts       *)
(*   SpecLoop   : the consumer loop of the transcriber, with the engine's  *)
(*                transcription callback run inside the iteration          *)
(*   SpecEngine : the engine's control operations and the consumer threads *)
(*                they start, with keystrokes typed one at a time          *)
(*   SpecPause  : SpecEngine with pause() and resume()                     *)
(*   SpecFault  : the started engine with raising callbacks, failing       *)
(*                start_dictation() calls and the error counter updated    *)
(*                in two steps (read, then store)                          *)
(*   SpecStop   : the started engine with its threads scheduled fairly     *)
(*   SpecQueue  : the audio path from the capture callback to the consumer *)
(*   SpecExec   : _execute_command applied to every kind of action         *)
(*   SpecRace   : start() and start_dictation() called by several threads  *)
(*   SpecReconf : a reconfiguration call racing with a process_text call   *)
(*   SpecOverlap: the overlap kept after a silence-boundary submission     *)
(*   SpecWindow : the silence window for configured pause durations       *)
(*   SpecMatch  : the matches of an utterance executed one after the other *)
(*   SpecUtter  : utterances delivered to the callback one after the other *)
(*   SpecHotkey : key press and release events of the hotkey listener      *)
(***************************************************************************)
EXTENDS Integers, Sequences, FiniteSets, TLC

VARIABLES new_text, last_text, dd_done, is_new,
          cp_config, cp_text, cp_confidence, cp_done, matches, clean_text,
          buffer, silence_buffer, last_transcription, chunks_fed, peak, flushes,
          engine, sink, threads, generation, last_op, is_paused,
          audio_queue, capture_queue, puts,
          callers, race,
          reconf, ptcall,
          ov_buffer, ov_window, overlap_duration, ov_done,
          sw_buffer, sw_window, pause_duration, sw_fed, sw_outcome,
          mx_pending, mx_done, mx_failures, mx_errors0, mx_count, device, device_ok,
          ut_text, ut_count,
          pressed_keys, hold_fires, key_events

dedupVars == <<new_text, last_text, dd_done, is_new>>
cmdVars == <<cp_config, cp_text, cp_confidence, cp_done, matches, clean_text>>
loopVars == <<buffer, silence_buffer, last_transcription, chunks_fed, peak, flushes>>
engineVars == <<engine, sink>>
threadVars == <<threads, generation, last_op, is_paused>>
queueVars == <<audio_queue, capture_queue, puts>>
raceVars == <<callers, race>>
reconfVars == <<reconf, ptcall>>
overlapVars == <<ov_buffer, ov_window, overlap_duration, ov_done>>
windowVars == <<sw_buffer, sw_window, pause_duration, sw_fed, sw_outcome>>
matchVars == <<mx_pending, mx_done, mx_failures, mx_errors0, mx_count, device, device_ok>>
utterVars == <<ut_text, ut_count>>
hotkeyVars == <<pressed_keys, hold_fires, key_events>>
lateVars == <<windowVars, matchVars, utterVars, hotkeyVars>>
auxVars == <<queueVars, raceVars, reconfVars, overlapVars, lateVars>>
vars == <<dedupVars, cmdVars, loopVars, engineVars, threadVars, auxVars>>

(***************************************************************************)
(* Bounds                                                                  *)
(***************************************************************************)
MaxNewLen == 5
MaxLastLen == 4
MaxCmdLen == 7
MaxChunks == 5
\* consumer threads alive at once, start() calls, utterances, failed calls
MaxThreads == 2
MaxStarts == 2
MaxUtterances == 2
MaxErrors == 2
MaxPuts == 4
MaxCommands == 4
MaxCallers == 2
MaxCalls == 2
MaxReconfLen == 3
MaxRuns == 3
MaxMatches == 3
MaxDeliveries == 3
MaxKeyEvents == 6

(***************************************************************************)
(* Text helpers (Python str semantics on the modelled alphabet)            *)
(***************************************************************************)
TextChars == {"a", "A", " "}

TextsUpTo(n) == UNION {[1..k -> TextChars] : k \in 0..n}

LowerLetters ==
  <<"a", "b", "c", "d", "e", "f", "g", "h", "i", "j", "k", "l", "m",
    "n", "o", "p", "q", "r", "s", "t", "u", "v", "w", "x", "y", "z">>

UpperLetters ==
  <<"A", "B", "C", "D", "E", "F", "G", "H", "I", "J", "K", "L", "M",
    "N", "O", "P", "Q", "R", "S", "T", "U", "V", "W", "X", "Y", "Z">>

IsLower(c) == \E i \in 1..26 : LowerLetters[i] = c

IsUpper(c) == \E i \in 1..26 : UpperLetters[i] = c

\* str.isalpha() on one character
IsAlpha(c) == IsLower(c) \/ IsUpper(c)

\* str.lower() on one character
LowerChar(c) ==
  IF IsUpper(c) THEN LowerLetters[CHOOSE i \in 1..26 : UpperLetters[i] = c] ELSE c

\* str.upper() on one character
UpperChar(c) ==
  IF IsLower(c) THEN UpperLetters[CHOOSE i \in 1..26 : LowerLetters[i] = c] ELSE c

\* a faulty variant of Lower: no case folding
Lower_NoFold(s) == s

\* str.lower()
Lower(s) == [i \in 1..Len(s) |-> LowerChar(s[i])]

IsSpace(c) == c = " "

RECURSIVE LStrip(_)
LStrip(s) == IF s # <<>> /\ IsSpace(Head(s)) THEN LStrip(Tail(s)) ELSE s

RECURSIVE RStrip(_)
RStrip(s) ==
  IF s # <<>> /\ IsSpace(s[Len(s)]) THEN RStrip(SubSeq(s, 1, Len(s) - 1)) ELSE s

\* str.strip()
Strip(s) == RStrip(LStrip(s))

\* a in b  (Python substring test)
IsSubstr(a, b) ==
  \E i \in 0..(Len(b) - Len(a)) : SubSeq(b, i + 1, i + Len(a)) = a

\* length of the first word of a text that starts with a non-space
RECURSIVE WordLen(_)
WordLen(s) == IF s = <<>> \/ IsSpace(Head(s)) THEN 0 ELSE 1 + WordLen(Tail(s))

\* str.split(): the whitespace-separated words, no empty word
RECURSIVE Split(_)
Split(s) ==
  LET t == LStrip(s) IN
    IF t = <<>> THEN <<>>
    ELSE LET n == WordLen(t) IN
           <<SubSeq(t, 1, n)>> \o Split(SubSeq(t, n + 1, Len(t)))

Min(a, b) == IF a < b THEN a ELSE b

\* the loop "for i in range(min(..)): if new[i] == last[i]: n += 1 else break"
RECURSIVE OverlapStart(_, _)
OverlapStart(nw, lw) ==
  IF nw = <<>> \/ lw = <<>> THEN 0
  ELSE IF Head(nw) = Head(lw) THEN 1 + OverlapStart(Tail(nw), Tail(lw))
  ELSE 0

Reverse(s) == [i \in 1..Len(s) |-> s[Len(s) + 1 - i]]

\* the same loop on new_words[-(i+1)], last_words[-(i+1)]
OverlapEnd(nw, lw) == OverlapStart(Reverse(nw), Reverse(lw))

SeqToSet(s) == {s[i] : i \in 1..Len(s)}

(***************************************************************************)
(* WhisperTranscriber._is_new_content                                      *)
(* The float tests  a > b * 1.3,  a > b * 1.5,  a > b * 0.5  agree with    *)
(* 10a > 13b, 2a > 3b, 2a > b on all lengths below 3000.                   *)
(***************************************************************************)
\* a faulty variant of ExpansionIsNew: the 1.5 ratio of the later rule
ExpansionIsNew_Ratio15(nn, ln) == 2 * Len(nn) > 3 * Len(ln)

ExpansionIsNew(nn, ln) == 10 * Len(nn) > 13 * Len(ln)

WordRules(nn, ln) ==
  LET nw == Split(nn)
      lw == Split(ln)
  IN  IF Len(nw) > 0 /\ Len(lw) > 0 /\ 2 * OverlapStart(nw, lw) > Len(nw)
        THEN FALSE
      ELSE IF Len(nw) > 0 /\ Len(lw) > 0 /\ 2 * OverlapEnd(nw, lw) > Len(nw)
        THEN FALSE
      ELSE IF Cardinality(SeqToSet(nw) \ SeqToSet(lw)) >= 2 THEN TRUE
      ELSE IF 2 * Len(nn) > 3 * Len(ln) THEN TRUE
      ELSE IF nn # ln /\ Len(nn) > 3 /\ Len(ln) > 3 THEN TRUE
      ELSE FALSE

IsNewContent(new, last) ==
  IF last = <<>> THEN TRUE
  ELSE LET nn == Strip(Lower(new))
           ln == Strip(Lower(last))
       IN  IF nn = ln THEN FALSE
           ELSE IF IsSubstr(nn, ln) THEN FALSE
           ELSE IF IsSubstr(ln, nn) THEN ExpansionIsNew(nn, ln)
           ELSE WordRules(nn, ln)

(***************************************************************************)
(* CommandProcessor (regular expressions on texts, positions 0-based)      *)
(***************************************************************************)
CmdChars == {"a", "b", " "}

CmdTexts == UNION {[1..k -> CmdChars] : k \in 0..MaxCmdLen}

\* \w (the modelled texts hold no digit and no underscore)
IsWordChar(c) == IsAlpha(c)

\* is the character at 0-based index i of t a word character
WordAt(t, i) == i >= 0 /\ i < Len(t) /\ IsWordChar(t[i + 1])

\* \b at 0-based position p of t
Boundary(t, p) == WordAt(t, p - 1) # WordAt(t, p)

\* \b pat \b matches t at start s
MatchAt(t, pat, s) ==
  /\ s + Len(pat) <= Len(t)
  /\ SubSeq(t, s + 1, s + Len(pat)) = pat
  /\ Boundary(t, s)
  /\ Boundary(t, s + Len(pat))

\* first alternative of \b(w1|w2|..)\b that matches at s, 0 if none
FirstAlt(t, words, s) ==
  LET ok == {k \in 1..Len(words) : MatchAt(t, words[k], s)}
  IN  IF ok = {} THEN 0 ELSE CHOOSE k \in ok : \A j \in ok : k <= j

\* re.finditer of \b(w1|w2|..)\b from position pos: <<start, end>> spans,
\* leftmost first, each search resuming at the end of the previous match
RECURSIVE FindIter(_, _, _)
FindIter(t, words, pos) ==
  LET starts == {s \in pos..Len(t) : FirstAlt(t, words, s) # 0}
  IN  IF starts = {} THEN <<>>
      ELSE LET s == CHOOSE x \in starts : \A y \in starts : x <= y
               e == s + Len(words[FirstAlt(t, words, s)])
           IN  IF e = s THEN <<>>
               ELSE <<<<s, e>>>> \o FindIter(t, words, e)

\* command_mode_pattern.search(text)
CommandModeActive(config, t) ==
  \E s \in 0..Len(t) : MatchAt(Lower(t), Lower(config.command_mode_word), s)

SystemActions == {"STOP_DICTATION", "START_DICTATION"}

\* action.startswith('STOP_')
StopClass == {"STOP_DICTATION", "STOP_ALL"}

\* a faulty variant of Skipped: the sentinels are skipped as well
Skipped_AllStop(action, command_mode) ==
  ~command_mode /\ action \in StopClass

\* the phrases skipped outside command mode
Skipped(action, command_mode) ==
  ~command_mode /\ action \notin SystemActions /\ action \in StopClass

MatchesOf(cmd, spans) ==
  [i \in 1..Len(spans) |->
     [command |-> cmd.phrase, action |-> cmd.action, confidence |-> 100,
      start_pos |-> spans[i][1], end_pos |-> spans[i][2]]]

RECURSIVE FindCommandsFrom(_, _, _, _)
FindCommandsFrom(commands, k, text_lower, command_mode) ==
  IF k > Len(commands) THEN <<>>
  ELSE (IF Skipped(commands[k].action, command_mode) THEN <<>>
        ELSE MatchesOf(commands[k],
                       FindIter(text_lower, <<Lower(commands[k].phrase)>>, 0)))
       \o FindCommandsFrom(commands, k + 1, text_lower, command_mode)

\* CommandProcessor._find_commands_in_mode
FindCommandsInMode(config, text_lower, command_mode) ==
  FindCommandsFrom(config.commands, 1, text_lower, command_mode)

PunctMatches(text_lower, words, action) ==
  LET spans == FindIter(text_lower, [k \in 1..Len(words) |-> Lower(words[k])], 0)
  IN  [i \in 1..Len(spans) |->
         [command |-> SubSeq(text_lower, spans[i][1] + 1, spans[i][2]),
          action |-> action, confidence |-> 90,
          start_pos |-> spans[i][1], end_pos |-> spans[i][2]]]

\* a faulty variant of FindPunctuationCommands: sentence ends only
FindPunctuationCommands_DotOnly(config, text_lower) ==
  PunctMatches(text_lower, config.sentence_end_words, "KEY_DOT")

\* CommandProcessor._find_punctuation_commands
FindPunctuationCommands(config, text_lower) ==
  PunctMatches(text_lower, config.sentence_end_words, "KEY_DOT")
  \o PunctMatches(text_lower, config.comma_words, "KEY_COMMA")
  \o PunctMatches(text_lower, config.question_words, "KEY_QUESTION")

\* insert m into the start_pos-sorted list ms after every element whose
\* key is not greater (list.sort(key=start_pos) is stable)
RECURSIVE InsertByStart(_, _)
InsertByStart(ms, m) ==
  IF ms = <<>> THEN <<m>>
  ELSE IF Head(ms).start_pos <= m.start_pos
    THEN <<Head(ms)>> \o InsertByStart(Tail(ms), m)
  ELSE <<m>> \o ms

RECURSIVE SortByStart(_)
SortByStart(ms) ==
  IF ms = <<>> THEN <<>>
  ELSE InsertByStart(SortByStart(SubSeq(ms, 1, Len(ms) - 1)), ms[Len(ms)])

\* CommandProcessor.process_text
\* a faulty variant of ProcessText: a confidence equal to the threshold is
\* rejected as well
ProcessText_AboveOnly(config, t, confidence) ==
  IF confidence <= config.confidence_threshold THEN <<>>
  ELSE LET text_lower == Lower(t)
       IN  IF CommandModeActive(config, t)
             THEN SortByStart(FindCommandsInMode(config, text_lower, TRUE))
           ELSE SortByStart(
                  FindCommandsInMode(config, text_lower, FALSE)
                  \o (IF config.auto_punctuation
                        THEN FindPunctuationCommands(config, text_lower)
                      ELSE <<>>))

ProcessText(config, t, confidence) ==
  IF confidence < config.confidence_threshold THEN <<>>
  ELSE LET text_lower == Lower(t)
       IN  IF CommandModeActive(config, t)
             THEN SortByStart(FindCommandsInMode(config, text_lower, TRUE))
           ELSE SortByStart(
                  FindCommandsInMode(config, text_lower, FALSE)
                  \o (IF config.auto_punctuation
                        THEN FindPunctuationCommands(config, text_lower)
                      ELSE <<>>))

\* sorted(matches, key=start_pos, reverse=True): descending, equal keys keep
\* their original order
RECURSIVE InsertByStartDesc(_, _)
InsertByStartDesc(ms, m) ==
  IF ms = <<>> THEN <<m>>
  ELSE IF Head(ms).start_pos >= m.start_pos
    THEN <<Head(ms)>> \o InsertByStartDesc(Tail(ms), m)
  ELSE <<m>> \o ms

RECURSIVE SortByStartDesc(_)
SortByStartDesc(ms) ==
  IF ms = <<>> THEN <<>>
  ELSE InsertByStartDesc(SortByStartDesc(SubSeq(ms, 1, Len(ms) - 1)), ms[Len(ms)])

\* s[:k] and s[k:] with Python's clamping of k to len(s)
SliceTo(s, k) == SubSeq(s, 1, Min(k, Len(s)))
SliceFrom(s, k) == SubSeq(s, Min(k, Len(s)) + 1, Len(s))

\* clean_text[:start_pos] + clean_text[end_pos:]
RemoveSpan(s, m) == SliceTo(s, m.start_pos) \o SliceFrom(s, m.end_pos)

RECURSIVE RemoveAll(_, _)
RemoveAll(s, ms) ==
  IF ms = <<>> THEN s ELSE RemoveAll(RemoveSpan(s, Head(ms)), Tail(ms))

\* re.sub(r'\s+', ' ', s)
RECURSIVE CollapseSpaces(_)
CollapseSpaces(s) ==
  IF s = <<>> THEN <<>>
  ELSE IF IsSpace(Head(s)) THEN <<" ">> \o CollapseSpaces(LStrip(s))
  ELSE <<Head(s)>> \o CollapseSpaces(Tail(s))

\* CommandProcessor.extract_clean_text
ExtractCleanText(t, ms) ==
  IF ms = <<>> THEN t
  ELSE Strip(CollapseSpaces(RemoveAll(t, SortByStartDesc(ms))))

(***************************************************************************)
(* Configurations of the command processor used by SpecCmd                 *)
(***************************************************************************)
Str1(c) == <<c>>
PhraseAB == <<"a", " ", "b">>
PhraseABB == <<"a", " ", "b", " ", "b">>
PhraseBA == <<"b", " ", "a">>
NoWord == <<"b", "b", "b", "b", "b", "b", "b", "b", "b">>

\* two distinct phrases, no phrase contained in another, no punctuation
ConfigDisjoint ==
  [commands |-> <<[phrase |-> PhraseAB, action |-> "KEY_ENTER"],
                  [phrase |-> <<"b", "b">>, action |-> "KEY_CTRL+KEY_BACKSPACE"]>>,
   command_mode_word |-> NoWord, confidence_threshold |-> 50,
   auto_punctuation |-> FALSE,
   sentence_end_words |-> <<NoWord>>, comma_words |-> <<NoWord>>,
   question_words |-> <<NoWord>>]

\* a phrase and a longer phrase that starts with it ('new line',
\* 'new line break')
ConfigOverlap ==
  [commands |-> <<[phrase |-> PhraseAB, action |-> "KEY_ENTER"],
                  [phrase |-> PhraseABB, action |-> "KEY_SHIFT+KEY_ENTER"]>>,
   command_mode_word |-> NoWord, confidence_threshold |-> 50,
   auto_punctuation |-> FALSE,
   sentence_end_words |-> <<NoWord>>, comma_words |-> <<NoWord>>,
   question_words |-> <<NoWord>>]

\* a command phrase that contains a punctuation word, auto punctuation on
ConfigPunct ==
  [commands |-> <<[phrase |-> PhraseBA, action |-> "KEY_TAB"]>>,
   command_mode_word |-> NoWord, confidence_threshold |-> 50,
   auto_punctuation |-> TRUE,
   sentence_end_words |-> <<Str1("a")>>, comma_words |-> <<<<"b", "b">>>>,
   question_words |-> <<<<"a", "a", " ", "a">>, <<"a", "a">>>>]

\* a command-mode word ('b'), a stop-class action next to the two sentinels,
\* and punctuation words
ConfigMode ==
  [commands |-> <<[phrase |-> Str1("a"), action |-> "STOP_ALL"],
                  [phrase |-> <<"a", "a">>, action |-> "STOP_DICTATION"],
                  [phrase |-> <<"a", "a", "a">>, action |-> "START_DICTATION"]>>,
   command_mode_word |-> Str1("b"), confidence_threshold |-> 50,
   auto_punctuation |-> TRUE,
   sentence_end_words |-> <<<<"a", "b">>>>, comma_words |-> <<<<"b", "a">>>>,
   question_words |-> <<<<"b", "b">>>>]

\* the same with auto punctuation switched off
ConfigModeOff == [ConfigMode EXCEPT !.auto_punctuation = FALSE]

Configs == {ConfigDisjoint, ConfigOverlap, ConfigPunct, ConfigMode, ConfigModeOff}

\* confidence of the transcription in percent: below, at and above the
\* threshold of the configurations
Confidences == {49, 50, 100}

(***************************************************************************)
(* SpecCmd: the engine's use of the command processor on one text          *)
(***************************************************************************)
CmdInit ==
  /\ cp_config \in Configs
  /\ cp_text \in CmdTexts
  /\ cp_confidence \in Confidences
  /\ cp_done = FALSE
  /\ matches = <<>>
  /\ clean_text = <<>>

CmdIdle ==
  /\ cp_config = ConfigDisjoint
  /\ cp_text = <<>>
  /\ cp_confidence = 100
  /\ cp_done = FALSE
  /\ matches = <<>>
  /\ clean_text = <<>>

\* matches = process_text(text); clean_text = extract_clean_text(text, matches)
ProcessAndExtract ==
  /\ ~cp_done
  /\ matches' = ProcessText(cp_config, cp_text, cp_confidence)
  /\ clean_text' = ExtractCleanText(cp_text, matches')
  /\ cp_done' = TRUE
  /\ UNCHANGED <<cp_config, cp_text, cp_confidence>>

(***************************************************************************)
(* SpecDedup: one call of _is_new_content on a bounded pair of texts       *)
(***************************************************************************)
DedupInit ==
  /\ new_text \in TextsUpTo(MaxNewLen)
  /\ last_text \in TextsUpTo(MaxLastLen)
  /\ dd_done = FALSE
  /\ is_new = FALSE

DedupIdle ==
  /\ new_text = <<>>
  /\ last_text = <<>>
  /\ dd_done = FALSE
  /\ is_new = FALSE

CallIsNewContent ==
  /\ ~dd_done
  /\ is_new' = IsNewContent(new_text, last_text)
  /\ dd_done' = TRUE
  /\ UNCHANGED <<new_text, last_text>>

(***************************************************************************)
(* DictationEngine: the transcription callback                             *)
(***************************************************************************)
\* " ".join(words)
RECURSIVE Join(_)
Join(ws) ==
  IF ws = <<>> THEN <<>>
  ELSE IF Len(ws) = 1 THEN ws[1]
  ELSE ws[1] \o <<" ">> \o Join(Tail(ws))

\* drop every word equal (ignoring case) to the word before it
DropRepeated(ws) ==
  LET keep == {i \in 1..Len(ws) : i = 1 \/ Lower(ws[i]) # Lower(ws[i - 1])}
      nth(k) == CHOOSE i \in keep : Cardinality({j \in keep : j <= i}) = k
  IN  [k \in 1..Cardinality(keep) |-> ws[nth(k)]]

SpacedPunct == {".", "!", "?", ","}

\* re.sub(r'([.!?,])([A-Za-z])', r'\1 \2', text)
RECURSIVE SpaceAfterPunct(_)
SpaceAfterPunct(t) ==
  IF t = <<>> THEN <<>>
  ELSE IF Len(t) >= 2 /\ t[1] \in SpacedPunct /\ IsAlpha(t[2])
    THEN <<t[1], " ", t[2]>> \o SpaceAfterPunct(SubSeq(t, 3, Len(t)))
  ELSE <<t[1]>> \o SpaceAfterPunct(Tail(t))

RECURSIVE DropLeading(_, _)
DropLeading(t, c) == IF t # <<>> /\ Head(t) = c THEN DropLeading(Tail(t), c) ELSE t

\* re.sub(r'([.!?,])\1+', r'\1', text)
RECURSIVE SinglePunct(_)
SinglePunct(t) ==
  IF t = <<>> THEN <<>>
  ELSE IF t[1] \in SpacedPunct
    THEN <<t[1]>> \o SinglePunct(DropLeading(Tail(t), t[1]))
  ELSE <<t[1]>> \o SinglePunct(Tail(t))

SentenceEnd == {".", "!", "?", ":", ";"}

Capitalize(t) ==
  IF t # <<>> /\ IsAlpha(t[1]) THEN <<UpperChar(t[1])>> \o Tail(t) ELSE t

AddPeriod(t) ==
  IF t # <<>> /\ t[Len(t)] \notin SentenceEnd /\ IsAlpha(t[Len(t)])
    THEN t \o <<".">>
  ELSE t

\* DictationEngine._clean_transcription_text
CleanTranscriptionText(t) ==
  IF t = <<>> THEN <<>>
  ELSE LET words == Split(Strip(t))
           t3 == IF Len(words) > 1 THEN Join(DropRepeated(words)) ELSE Join(words)
           t5 == SinglePunct(SpaceAfterPunct(t3))
       IN  IF Len(Strip(t5)) < 3 THEN <<>>
           ELSE Strip(AddPeriod(Capitalize(t5)))

\* one entry of the output sink: a typed text or a key command
TypedText(t) == [text |-> t, action |-> ""]
TypedKey(a) == [text |-> <<>>, action |-> a]

\* KeystrokeInjector.inject_text / inject_command: nothing is emitted once
\* the device is closed
Emit(e, snk, entry) == IF e.injector_open THEN Append(snk, entry) ELSE snk

\* DictationEngine.start_dictation on an engine whose components exist:
\* start_recording and start_transcription return early when already on
StartDictation(e) ==
  IF e.is_dictating THEN e
  ELSE [e EXCEPT !.recording = TRUE, !.tr_running = TRUE, !.is_dictating = TRUE]

\* start_dictation raises: no audio_capture exists before the first start()
StartDictationFails(e) == ~e.is_dictating /\ ~e.components

\* DictationEngine.stop_dictation
StopDictation(e) ==
  IF ~e.is_dictating THEN e ELSE [e EXCEPT !.is_dictating = FALSE]

\* a faulty variant of ExecuteCommand: the sentinel actions are run and then
\* handed to inject_command like any other action
ExecuteCommand_ForwardAll(es, m) ==
  LET e == es[1]
      e1 == IF m.action = "STOP_DICTATION" THEN StopDictation(e)
            ELSE IF m.action = "START_DICTATION" THEN StartDictation(e)
            ELSE e
      s1 == Emit(e, es[2], TypedKey(m.action))
  IN  IF m.action = "START_DICTATION" /\ StartDictationFails(e)
        THEN <<[e EXCEPT !.errors = @ + 2], es[2]>>
      ELSE <<[e1 EXCEPT !.total_commands = @ + 1], s1>>

\* DictationEngine._execute_command on the pair <<engine, sink>>
ExecuteCommand(es, m) ==
  LET e == es[1]
      e1 == IF m.action = "STOP_DICTATION" THEN StopDictation(e)
            ELSE IF m.action = "START_DICTATION" THEN StartDictation(e)
            ELSE e
      s1 == IF m.action \in SystemActions THEN es[2]
            ELSE Emit(e, es[2], TypedKey(m.action))
  IN  IF m.action = "START_DICTATION" /\ StartDictationFails(e)
        THEN <<[e EXCEPT !.errors = @ + 2], es[2]>>
      ELSE <<[e1 EXCEPT !.total_commands = @ + 1], s1>>

RECURSIVE ExecuteCommands(_, _)
ExecuteCommands(es, ms) ==
  IF ms = <<>> THEN es ELSE ExecuteCommands(ExecuteCommand(es, Head(ms)), Tail(ms))

EndsWithSpace(t) == t # <<>> /\ t[Len(t)] = " "

\* a faulty variant of Spaced: the space is added before every text
Spaced_Always(e, ct) == <<" ">> \o ct

\* the text handed to inject_text
Spaced(e, ct) ==
  IF e.last_injected_text # <<>> /\ ~EndsWithSpace(e.last_injected_text)
    THEN <<" ">> \o ct
  ELSE ct

\* keystroke_injector.inject_text(clean_text) and the bookkeeping after it
InjectText(es, typed) ==
  <<[es[1] EXCEPT !.last_injected_text = typed,
                  !.total_characters = @ + Len(typed)],
    Emit(es[1], es[2], TypedText(typed))>>

\* the injection step of _on_transcription, after the commands have run
InjectCleanText(es, ct) ==
  IF es[1].is_dictating /\ ct # <<>> /\ es[1].components
    THEN InjectText(es, Spaced(es[1], ct))
  ELSE es

\* _on_transcription up to and including the execution of the commands
AfterCommands(es, config, t) ==
  ExecuteCommands(<<[es[1] EXCEPT !.total_transcriptions = @ + 1], es[2]>>,
                  ProcessText(config, CleanTranscriptionText(t), 100))

\* the clean_text _on_transcription extracts from the recognized text t
CleanTextOf(config, t) ==
  ExtractCleanText(CleanTranscriptionText(t),
                   ProcessText(config, CleanTranscriptionText(t), 100))

\* DictationEngine._on_transcription on the pair <<engine, sink>>
OnTranscription(es, config, t) ==
  InjectCleanText(AfterCommands(es, config, t), CleanTextOf(config, t))

\* the engine's command configuration: 'enter' -> KEY_ENTER,
\* 'halt' -> STOP_DICTATION, 'go' -> START_DICTATION
EngineConfig ==
  [commands |-> <<[phrase |-> <<"e", "n", "t", "e", "r">>, action |-> "KEY_ENTER"],
                  [phrase |-> <<"h", "a", "l", "t">>, action |-> "STOP_DICTATION"],
                  [phrase |-> <<"g", "o">>, action |-> "START_DICTATION"]>>,
   command_mode_word |-> <<"c", "o", "m", "p", "u", "t", "e", "r">>,
   confidence_threshold |-> 50,
   auto_punctuation |-> TRUE,
   sentence_end_words |-> <<<<"p", "e", "r", "i", "o", "d">>>>,
   comma_words |-> <<<<"c", "o", "m", "m", "a">>>>,
   question_words |-> <<<<"q", "u", "e", "s", "t", "i", "o", "n">>>>]

\* the engine after __init__
EngineStopped ==
  [is_running |-> FALSE, is_dictating |-> FALSE, components |-> FALSE,
   injector_open |-> FALSE, recording |-> FALSE, listening |-> FALSE,
   tr_running |-> FALSE,
   last_injected_text |-> <<>>,
   total_transcriptions |-> 0, total_commands |-> 0, total_characters |-> 0,
   errors |-> 0]

\* the engine after start() and start_dictation()
EngineDictating ==
  [EngineStopped EXCEPT !.is_running = TRUE, !.is_dictating = TRUE,
                        !.components = TRUE, !.injector_open = TRUE,
                        !.recording = TRUE, !.listening = TRUE,
                        !.tr_running = TRUE]

\* the engine after start()
EngineStarted ==
  [EngineStopped EXCEPT !.is_running = TRUE, !.components = TRUE,
                        !.injector_open = TRUE, !.listening = TRUE]

\* a slot without a thread
NoThread == [pc |-> "none", tr |-> 0, tr_running |-> FALSE, inj |-> 0,
             remaining |-> <<>>, typed |-> <<>>, text |-> <<>>, err_read |-> 0]

EngineIdle ==
  /\ engine = EngineStopped
  /\ sink = <<>>

\* the engine is not paused; a paused engine forwards no recognized text
Unpaused == FALSE

Forwarded(paused) == ~paused

ThreadsIdle ==
  /\ threads = [i \in 1..MaxThreads |-> NoThread]
  /\ generation = 0
  /\ last_op = [op |-> "", was_dictating |-> FALSE, outcome |-> "ok"]
  /\ is_paused = Unpaused

(***************************************************************************)
(* WhisperTranscriber._transcription_loop                                  *)
(* A byte buffer is a sequence of runs [loud, n]: n bytes of silent or of  *)
(* audible audio.  Chunks are whole multiples of the 100 ms chunk and      *)
(* audible samples are at full scale, so the RMS of a window is below the  *)
(* threshold exactly when the window holds no audible run.                 *)
(***************************************************************************)
\* int(sample_rate * bytes_per_sample * silence_duration), pause_duration 1.0
SilenceBytes == 32000
\* int(sample_rate * bytes_per_sample * min_utterance_duration), 0.7 s
MinUtteranceBytes == 22400
\* int(sample_rate * bytes_per_sample * overlap_duration), 0.2 s
OverlapBytes == 6400
\* int(sample_rate * bytes_per_sample * 10)
MaxBufferBytes == 320000

\* the blocks of AudioCapture: buffer_size frames of two bytes, 8000 frames
\* by default and 80000 frames for a long block
ChunkBytes == 16000
LongChunkBytes == 160000

\* the chunks the audio callback delivers
Chunks == [loud : BOOLEAN, n : {ChunkBytes, LongChunkBytes}]

RECURSIVE BufLen(_)
BufLen(b) == IF b = <<>> THEN 0 ELSE Head(b).n + BufLen(Tail(b))

\* b + chunk
AddBytes(b, r) ==
  IF r.n = 0 THEN b
  ELSE IF b # <<>> /\ b[Len(b)].loud = r.loud
    THEN SubSeq(b, 1, Len(b) - 1) \o <<[loud |-> r.loud, n |-> b[Len(b)].n + r.n]>>
  ELSE Append(b, r)

\* the last k bytes of b, k >= 1
RECURSIVE LastBytes(_, _)
LastBytes(b, k) ==
  IF b = <<>> \/ k <= 0 THEN <<>>
  ELSE LET r == b[Len(b)] IN
       IF r.n >= k THEN <<[loud |-> r.loud, n |-> k]>>
       ELSE LastBytes(SubSeq(b, 1, Len(b) - 1), k - r.n) \o <<r>>

\* b[-k:]  (b[-0:] is the whole of b)
SliceLast(b, k) == IF k = 0 \/ k >= BufLen(b) THEN b ELSE LastBytes(b, k)

\* the first k bytes of b
RECURSIVE FirstBytes(_, _)
FirstBytes(b, k) ==
  IF b = <<>> \/ k <= 0 THEN <<>>
  ELSE IF Head(b).n >= k THEN <<[loud |-> Head(b).loud, n |-> k]>>
  ELSE <<Head(b)>> \o FirstBytes(Tail(b), k - Head(b).n)

\* b[:-k]  (b[:-0] is empty)
DropLast(b, k) == IF k = 0 THEN <<>> ELSE FirstBytes(b, BufLen(b) - k)

\* WhisperTranscriber._is_silence
IsSilence(b) == \A i \in 1..Len(b) : ~b[i].loud

\* the texts the Recognizer returns, already stripped; <<>> stands for None
\* and for an empty result
Hello == <<"h", "e", "l", "l", "o">>
HelloYou == Hello \o <<" ", "y", "o", "u">>
HelloYouDot == HelloYou \o <<".">>
RecogTexts == {Hello, HelloYou, HelloYouDot}

\* WhisperTranscriber._transcribe_audio: None for silent audio, otherwise
\* whatever the model returns or None on an exception
TranscribeResults(utterance) ==
  IF IsSilence(utterance) THEN {<<>>} ELSE RecogTexts \cup {<<>>}

\* the deduplication test of the silence-boundary branch
SilenceAccepts(result, last) ==
  \/ IsNewContent(result, last)
  \/ (result # last /\ Len(result) > Len(last))

\* the deduplication test of the forced-flush and timeout branches
FlushAccepts(result, last) == IsNewContent(result, last)

\* the consumer's state around a flush: last_transcription, the engine, the
\* sink, and the records of the flushes of this iteration
LoopState == [last |-> last_transcription, engine |-> engine, sink |-> sink,
              recs |-> <<>>]

FlushRecord(st, path, utterance, result, delivered) ==
  [path |-> path, submitted |-> BufLen(utterance), result |-> result,
   prev_last |-> st.last, delivered |-> delivered]

\* the text passed the test: _process_transcription, then last_transcription
Accept(st, result, es, rec) ==
  [last |-> result, engine |-> es[1], sink |-> es[2], recs |-> Append(st.recs, rec)]

\* one flush of the utterance whose transcription is result
Flush(st, path, utterance, result, accepts) ==
  IF result # <<>> /\ accepts
    THEN Accept(st, result,
                 OnTranscription(<<st.engine, st.sink>>, EngineConfig, result),
                 FlushRecord(st, path, utterance, result, TRUE))
  ELSE [st EXCEPT !.recs = Append(@, FlushRecord(st, path, utterance, result, FALSE))]

\* buffer[:-len(silence_buffer)] if len(buffer) > len(silence_buffer) else buffer
Utterance(b, sb) == IF BufLen(b) > BufLen(sb) THEN DropLast(b, BufLen(sb)) ELSE b

\* 'Keep overlap for next buffer': buffer[-n:] with n the overlap byte count
KeepOverlap(b, n) == SliceLast(b, n)

\* the silence-boundary branch submits an utterance
SubmitsAtSilence(b, sb) ==
  IsSilence(sb) /\ BufLen(b) > MinUtteranceBytes /\ BufLen(Utterance(b, sb)) > 0

\* the silence-boundary branch on buffer b and window sb
SilenceFlush(st, b, sb, r1) ==
  IF SubmitsAtSilence(b, sb)
    THEN Flush(st, "silence", Utterance(b, sb), r1, SilenceAccepts(r1, st.last))
  ELSE st

\* the buffer the silence-boundary branch leaves
AfterSilence(b, sb) ==
  IF IsSilence(sb)
    THEN (IF BufLen(b) > MinUtteranceBytes THEN KeepOverlap(b, OverlapBytes) ELSE <<>>)
  ELSE b

\* the forced flush on buffer b
ForcedFlush(st, b, r2) ==
  IF BufLen(b) > MaxBufferBytes
    THEN Flush(st, "forced", b, r2, FlushAccepts(r2, st.last))
  ELSE st

\* the state the loop body leaves
Commit(st, b, sb) ==
  /\ buffer' = b
  /\ silence_buffer' = sb
  /\ last_transcription' = st.last
  /\ engine' = st.engine
  /\ sink' = st.sink
  /\ flushes' = st.recs

\* the loop body after the silence-boundary branch
AfterBranch(st, b, sb, r2) ==
  IF BufLen(b) > MaxBufferBytes
    THEN Commit(ForcedFlush(st, b, r2), <<>>, <<>>)
  ELSE Commit(st, b, sb)

\* the results the Recognizer may give to an iteration on buffer b, window sb
Answers(b, sb, r1, r2) ==
  /\ r1 \in (IF SubmitsAtSilence(b, sb) THEN TranscribeResults(Utterance(b, sb))
             ELSE {<<>>})
  /\ r2 \in (IF BufLen(AfterSilence(b, sb)) > MaxBufferBytes
               THEN TranscribeResults(AfterSilence(b, sb)) ELSE {<<>>})

\* the try block on the buffer b and the trimmed window sb.  Chunks are whole
\* int16 samples, so np.frombuffer accepts every window.
Body(b, sb, r1, r2) ==
  /\ Answers(b, sb, r1, r2)
  /\ peak' = BufLen(b)
  /\ AfterBranch(SilenceFlush(LoopState, b, sb, r1), AfterSilence(b, sb),
                 IF IsSilence(sb) THEN <<>> ELSE sb, r2)

\* silence_buffer[-silence_samples:] once it is longer than the window
Window(sb) == IF BufLen(sb) > SilenceBytes THEN SliceLast(sb, SilenceBytes) ELSE sb

\* one pass of the loop on a chunk
Iteration(chunk, r1, r2) ==
  Body(AddBytes(buffer, chunk), Window(AddBytes(silence_buffer, chunk)), r1, r2)

\* audio_queue.get returns a chunk
GetChunk ==
  /\ chunks_fed < MaxChunks
  /\ chunks_fed' = chunks_fed + 1
  /\ \E chunk \in Chunks, r1, r2 \in RecogTexts \cup {<<>>} : Iteration(chunk, r1, r2)

\* the queue.Empty handler on the buffered audio
TimeoutFlush(st, b, r) ==
  IF BufLen(b) > MinUtteranceBytes
    THEN Flush(st, "timeout", b, r, FlushAccepts(r, st.last))
  ELSE st

\* audio_queue.get raises queue.Empty after one second
ReadTimeout ==
  /\ flushes # <<>> \/ buffer # <<>> \/ silence_buffer # <<>>
  /\ \E r \in RecogTexts \cup {<<>>} :
       /\ r \in (IF BufLen(buffer) > MinUtteranceBytes
                   THEN TranscribeResults(buffer) ELSE {<<>>})
       /\ Commit(TimeoutFlush(LoopState, buffer, r), <<>>, <<>>)
  /\ peak' = BufLen(buffer)
  /\ UNCHANGED chunks_fed

LoopInit ==
  /\ buffer = <<>>
  /\ silence_buffer = <<>>
  /\ last_transcription = <<>>
  /\ chunks_fed = 0
  /\ peak = 0
  /\ flushes = <<>>

LoopIdle == LoopInit

(***************************************************************************)
(* DictationEngine control operations and the consumer threads             *)
(* generation counts the start() calls: it names the transcriber and the   *)
(* injector initialize_components created last.  A thread is the           *)
(* _transcription_loop of transcriber tr; its segmentation is abstracted   *)
(* to the recognition of one utterance at a time.  last_op records the     *)
(* start(), stop(), pause(), resume(), delivery or failure the last step   *)
(* was, with how it ended ("ok", "warned" for the logged early return,     *)
(* "raised", "dropped"); any other step leaves Quiet there.                *)
(***************************************************************************)
\* the texts the Recognizer returns for the utterances
Hey == <<"h", "e", "y">>
Halt == <<"h", "a", "l", "t">>
GoOn == <<"g", "o", " ", "o", "n">>
EngineTexts == {Hey, Halt, GoOn}

Op(name, e, outcome) ==
  [op |-> name, was_dictating |-> e.is_dictating, outcome |-> outcome]

Quiet == [op |-> "", was_dictating |-> FALSE, outcome |-> "ok"]

HasFree(ths) == \E i \in 1..MaxThreads : ths[i].pc = "none"

\* threading.Thread(target=self._transcription_loop).start() on transcriber g
Spawn(ths, g) ==
  LET i == CHOOSE k \in 1..MaxThreads :
             ths[k].pc = "none" /\ \A j \in 1..(k - 1) : ths[j].pc # "none"
  IN  [ths EXCEPT ![i] = [NoThread EXCEPT !.pc = "idle", !.tr = g]]

\* start_transcription inside start_dictation starts a thread when the
\* transcriber was not running
SpawnIfStarted(ths, before, after, g) ==
  IF ~before.tr_running /\ after.tr_running THEN Spawn(ths, g) ELSE ths

\* a faulty variant of AlreadyRunning: start() allocates whatever the state
AlreadyRunning_Never(e) == FALSE

\* start: if self.is_running: warning, return
AlreadyRunning(e) == e.is_running

\* initialize_components replaces self.transcriber: the threads of the
\* transcriber g keep its is_running flag as the engine left it
Detach(ths, e, g) ==
  [i \in 1..MaxThreads |->
     IF ths[i].pc # "none" /\ ths[i].tr = g
       THEN [ths[i] EXCEPT !.tr_running = e.tr_running]
     ELSE ths[i]]

\* DictationEngine.start
Start ==
  IF AlreadyRunning(engine)
    THEN /\ last_op' = Op("start", engine, "warned")
         /\ UNCHANGED <<engine, sink, threads, generation, is_paused>>
  ELSE /\ generation < MaxStarts
       /\ generation' = generation + 1
       /\ engine' = [engine EXCEPT !.components = TRUE, !.injector_open = TRUE,
                                   !.recording = FALSE, !.tr_running = FALSE,
                                   !.listening = TRUE, !.is_running = TRUE]
       /\ threads' = Detach(threads, engine, generation)
       /\ last_op' = Op("start", engine, "ok")
       /\ UNCHANGED <<sink, is_paused>>

\* DictationEngine.start when initialize_components raises (KeystrokeInjector
\* without uinput or without access to the device): the handler calls stop(),
\* which returns at once because is_running is still False, and re-raises
StartFails ==
  /\ ~AlreadyRunning(engine)
  /\ last_op' = Op("start", engine, "raised")
  /\ UNCHANGED <<engine, sink, threads, generation, is_paused>>

\* DictationEngine.stop: stop_transcription joins the thread for at most
\* five seconds; a thread waiting on the queue leaves within one second, a
\* thread inside the Recognizer or typing may outlive the join
Stop ==
  IF ~engine.is_running
    THEN /\ last_op' = Op("stop", engine, "warned")
         /\ UNCHANGED <<engine, sink, threads, generation, is_paused>>
  ELSE /\ engine' = [engine EXCEPT !.is_dictating = FALSE, !.is_running = FALSE,
                                   !.listening = FALSE, !.recording = FALSE,
                                   !.tr_running = FALSE, !.injector_open = FALSE]
       /\ threads' = [i \in 1..MaxThreads |->
                        IF threads[i].pc = "idle" /\ threads[i].tr = generation
                          THEN NoThread ELSE threads[i]]
       /\ is_paused' = Unpaused
       /\ last_op' = Op("stop", engine, "ok")
       /\ UNCHANGED <<sink, generation>>

\* start_dictation called on the engine e, the components being there
CallStartDictation(e) ==
  /\ ~e.is_dictating
  /\ e.components
  /\ e.tr_running \/ HasFree(threads)
  /\ engine' = StartDictation(e)
  /\ threads' = SpawnIfStarted(threads, e, StartDictation(e), generation)
  /\ last_op' = Quiet
  /\ UNCHANGED <<sink, generation, is_paused>>

\* start_dictation can raise: self.audio_capture is None before the first
\* start(), or start_recording cannot open the input stream
StartDictationCanRaise(e) == ~e.components \/ ~e.recording

\* start_dictation called on the engine e and raising: the exception is
\* counted and re-raised
CallStartDictationRaises(e) ==
  /\ ~e.is_dictating
  /\ StartDictationCanRaise(e)
  /\ e.errors < MaxErrors
  /\ engine' = [e EXCEPT !.errors = @ + 1]
  /\ last_op' = Quiet
  /\ UNCHANGED <<sink, threads, generation, is_paused>>

\* stop_dictation called on the engine e
CallStopDictation(e) ==
  /\ e.is_dictating
  /\ engine' = StopDictation(e)
  /\ last_op' = Quiet
  /\ UNCHANGED <<sink, threads, generation, is_paused>>

\* DictationEngine.start_dictation called by the application
StartDictationCall == CallStartDictation(engine)

StartDictationCallRaises == CallStartDictationRaises(engine)

\* DictationEngine.stop_dictation called by the application
StopDictationCall == CallStopDictation(engine)

\* HotkeyManager._on_press -> DictationEngine._toggle_dictation
HotkeyToggle ==
  /\ engine.listening
  /\ IF engine.is_dictating THEN CallStopDictation(engine)
     ELSE CallStartDictation(engine)

\* the hotkey pressed while the input stream cannot be opened: _on_press
\* logs the exception start_dictation re-raised
HotkeyToggleRaises ==
  /\ engine.listening
  /\ CallStartDictationRaises(engine)

\* pause(): Running -> Paused
Pause ==
  /\ engine.is_running
  /\ ~is_paused
  /\ is_paused' = TRUE
  /\ last_op' = Op("pause", engine, "ok")
  /\ UNCHANGED <<engine, sink, threads, generation>>

\* resume(): Paused -> Running
Resume ==
  /\ is_paused
  /\ is_paused' = Unpaused
  /\ last_op' = Op("resume", engine, "ok")
  /\ UNCHANGED <<engine, sink, threads, generation>>

\* while self.is_running, read by the loop of thread th: the flag of the
\* engine's transcriber, or the flag a replaced transcriber was left with
LoopRunning(th) == IF th.tr = generation THEN engine.tr_running ELSE th.tr_running

\* the thread takes an utterance from its queue and enters the Recognizer
Recognize(i) ==
  /\ threads[i].pc = "idle"
  /\ threads[i].tr = generation
  /\ engine.tr_running
  /\ engine.recording
  /\ engine.total_transcriptions
       + Cardinality({j \in 1..MaxThreads : threads[j].pc = "recognizing"}) < MaxUtterances
  /\ \E t \in EngineTexts :
       threads' = [threads EXCEPT ![i].pc = "recognizing", ![i].text = t]
  /\ last_op' = Quiet
  /\ UNCHANGED <<engine, sink, generation, is_paused>>

\* a faulty variant of Finished: a callback that raises ends the thread
Finished_Dies(th, e, raised) ==
  IF raised THEN NoThread
  ELSE [NoThread EXCEPT !.pc = "idle", !.tr = th.tr, !.tr_running = th.tr_running]

\* the thread back in its loop after the callback: when the callback raised
\* (the application's transcription_callback, a closed console), the handler
\* of _on_transcription has read stats['errors'] and is about to store the sum
Finished(th, e, raised) ==
  [NoThread EXCEPT !.pc = IF raised THEN "raised" ELSE "idle",
                   !.tr = th.tr, !.tr_running = th.tr_running,
                   !.err_read = IF raised THEN e.errors ELSE 0]

\* _transcribe_audio returns None (the Recognizer raised, no segments or an
\* empty text): nothing is delivered and the loop goes on
RecognizeFails(i) ==
  /\ threads[i].pc = "recognizing"
  /\ threads' = [threads EXCEPT ![i] = Finished(@, engine, FALSE)]
  /\ last_op' = Op("recognize", engine, "raised")
  /\ UNCHANGED <<engine, sink, generation, is_paused>>

\* a faulty variant of EnterInject: inject_text entered whatever the
\* dictation flag
EnterInject_Ungated(th, e, ct, raised) ==
  IF ct # <<>> /\ e.components
    THEN [th EXCEPT !.pc = "typing", !.inj = generation,
                    !.remaining = Spaced(e, ct), !.typed = Spaced(e, ct)]
  ELSE Finished(th, e, raised)

\* the thread after the commands of its utterance have run: inject_text
\* begins when the engine is dictating and clean text remains
EnterInject(th, e, ct, raised) ==
  IF e.is_dictating /\ ct # <<>> /\ e.components
    THEN [th EXCEPT !.pc = "typing", !.inj = generation,
                    !.remaining = Spaced(e, ct), !.typed = Spaced(e, ct)]
  ELSE Finished(th, e, raised)

\* _on_transcription in thread i, with es the pair <<engine, sink>> after
\* the commands and ct the extracted clean text
Process(i, es, ct, raised) ==
  /\ engine.tr_running \/ ~es[1].tr_running \/ HasFree(threads)
  /\ raised => es[1].errors < MaxErrors
  /\ engine' = es[1]
  /\ sink' = es[2]
  /\ threads' = [SpawnIfStarted(threads, engine, es[1], generation) EXCEPT
                   ![i] = EnterInject(@, es[1], ct, raised)]

\* a faulty variant of DeliverWith: the callback forwards whatever the
\* pause state
DeliverWith_Unpaused(i, raised) ==
  /\ threads[i].pc = "recognizing"
  /\ Process(i, AfterCommands(<<engine, sink>>, EngineConfig, threads[i].text),
             CleanTextOf(EngineConfig, threads[i].text), raised)
  /\ last_op' = Op("deliver", engine, "ok")
  /\ UNCHANGED <<generation, is_paused>>

\* the Recognizer returns: _process_transcription calls the engine's
\* callback, which runs the commands and enters inject_text; a paused engine
\* forwards nothing
DeliverWith(i, raised) ==
  /\ threads[i].pc = "recognizing"
  /\ IF Forwarded(is_paused)
       THEN /\ Process(i, AfterCommands(<<engine, sink>>, EngineConfig, threads[i].text),
                       CleanTextOf(EngineConfig, threads[i].text), raised)
            /\ last_op' = Op("deliver", engine, "ok")
     ELSE /\ threads' = [threads EXCEPT ![i] = Finished(@, engine, FALSE)]
          /\ last_op' = Op("deliver", engine, "dropped")
          /\ UNCHANGED <<engine, sink>>
  /\ UNCHANGED <<generation, is_paused>>

\* the injector the thread is typing on is still open
CanType(th) == th.inj = generation /\ engine.injector_open

\* the bookkeeping of _on_transcription after inject_text has returned
Typed(e, th) ==
  [e EXCEPT !.last_injected_text = th.typed,
            !.total_characters = @ + Len(th.typed)]

\* one keystroke of inject_text (the loop sleeps between characters); on a
\* closed device inject_text returns
TypeCharWith(i, raised) ==
  /\ threads[i].pc = "typing"
  /\ LET th == threads[i]
         last == ~CanType(th) \/ Len(th.remaining) = 1
     IN  /\ sink' = IF CanType(th) THEN Append(sink, TypedText(<<Head(th.remaining)>>))
                    ELSE sink
         /\ engine' = IF last THEN Typed(engine, th) ELSE engine
         /\ raised => last /\ engine.errors < MaxErrors
         /\ threads' = [threads EXCEPT ![i] =
                          IF last THEN Finished(th, engine, raised)
                          ELSE [th EXCEPT !.remaining = Tail(@)]]
  /\ last_op' = Quiet
  /\ UNCHANGED <<generation, is_paused>>

\* the callback returns
Deliver(i) == DeliverWith(i, FALSE)

TypeChar(i) == TypeCharWith(i, FALSE)

\* the callback raises after the text was handled
DeliverRaises(i) == DeliverWith(i, TRUE)

TypeCharRaises(i) == TypeCharWith(i, TRUE)

\* self.stats['errors'] += 1 in the handler of _on_transcription: the sum of
\* the value read earlier is stored
CountError(i) ==
  /\ threads[i].pc = "raised"
  /\ engine' = [engine EXCEPT !.errors = threads[i].err_read + 1]
  /\ threads' = [threads EXCEPT ![i] = Finished(@, engine, FALSE)]
  /\ last_op' = Quiet
  /\ UNCHANGED <<sink, generation, is_paused>>

\* an iteration of the loop raises outside _transcribe_audio and the
\* callback (np.frombuffer on a block that is no whole number of samples):
\* the handler of the loop logs, sleeps 0.1 s and goes on
IterationRaises(i) ==
  /\ threads[i].pc = "idle"
  /\ LoopRunning(threads[i])
  /\ last_op' = Op("iteration", engine, "raised")
  /\ UNCHANGED <<engine, sink, threads, generation, is_paused>>

\* while self.is_running fails: the thread returns
ThreadExit(i) ==
  /\ threads[i].pc = "idle"
  /\ ~LoopRunning(threads[i])
  /\ threads' = [threads EXCEPT ![i] = NoThread]
  /\ last_op' = Quiet
  /\ UNCHANGED <<engine, sink, generation, is_paused>>

(***************************************************************************)
(* The audio path: AudioCapture._audio_callback puts every block on its    *)
(* own queue and hands it to DictationEngine._on_audio_data, which calls   *)
(* WhisperTranscriber.add_audio_data; the consumer loop takes blocks from  *)
(* the transcriber's queue.  A block is named by its number.               *)
(***************************************************************************)
\* queue.Queue(): maxsize 0, a queue without a capacity
QueueMaxsize == 0

\* Queue.full(): never true when maxsize is 0
Full(q, maxsize) == maxsize > 0 /\ Len(q) >= maxsize

\* audio_queue.put(audio_data, timeout=0.1) with 'except queue.Full: warning'
PutOrDrop(q, chunk, maxsize) == IF Full(q, maxsize) THEN q ELSE Append(q, chunk)

\* add_audio_data: 'if not self.is_running: warning; return', then the put
AddAudioData(q, running, chunk) ==
  IF ~running THEN q ELSE PutOrDrop(q, chunk, QueueMaxsize)

\* DictationEngine._on_audio_data: forwards to the transcriber
OnAudioData(q, running, chunk) == AddAudioData(q, running, chunk)

\* AudioCapture._audio_callback: put on the capture's own queue (which no one
\* reads), then the engine's callback
AudioCallback ==
  /\ puts < MaxPuts
  /\ puts' = puts + 1
  /\ capture_queue' = Append(capture_queue, puts + 1)
  /\ audio_queue' = OnAudioData(audio_queue, engine.tr_running, puts + 1)
  /\ UNCHANGED engine

\* add_audio_data called on the transcriber itself
AddAudioDataCall ==
  /\ puts < MaxPuts
  /\ puts' = puts + 1
  /\ audio_queue' = AddAudioData(audio_queue, engine.tr_running, puts + 1)
  /\ UNCHANGED <<capture_queue, engine>>

\* start_transcription: warning when running, else the flag is set
StartTranscription ==
  /\ engine' = [engine EXCEPT !.tr_running = TRUE]
  /\ UNCHANGED queueVars

\* stop_transcription: warning when not running, else the flag is cleared;
\* the queue keeps what it holds
StopTranscription ==
  /\ engine' = [engine EXCEPT !.tr_running = FALSE]
  /\ UNCHANGED queueVars

\* the consumer loop: audio_queue.get(timeout=1.0) returns a block; a slow
\* Recognizer is a loop that takes this step rarely
ConsumerGet ==
  /\ engine.tr_running
  /\ audio_queue # <<>>
  /\ audio_queue' = Tail(audio_queue)
  /\ UNCHANGED <<capture_queue, puts, engine>>

\* the actions a command match can carry: two key actions and the sentinels
ExecActions == {"KEY_ENTER", "KEY_CTRL+KEY_A", "START_DICTATION", "STOP_DICTATION"}

\* _execute_command(match) called once; only match.action is read
ExecuteCommandCall(a) ==
  /\ engine.total_commands < MaxCommands
  /\ engine.errors < MaxErrors
  /\ engine' = ExecuteCommand(<<engine, sink>>, [action |-> a])[1]
  /\ sink' = ExecuteCommand(<<engine, sink>>, [action |-> a])[2]
  /\ last_op' = Op(a, engine, IF engine'.errors > engine.errors THEN "raised" ELSE "ok")
  /\ UNCHANGED <<threads, generation, is_paused>>

(***************************************************************************)
(* Control operations called from several threads at once.  start() and    *)
(* start_dictation() hold no lock: each is a test of a flag followed, some *)
(* statements later, by the assignment of that flag, and another caller    *)
(* can run in between.  race is the engine as these operations see it.     *)
(***************************************************************************)
\* DictationEngine.__init__: no component, no thread
RaceStopped ==
  [is_running |-> FALSE, is_dictating |-> FALSE, tr_running |-> FALSE,
   inits |-> 0, main_threads |-> 0, consumers |-> 0]

Caller(pc, calls) == [pc |-> pc, calls |-> calls]

At(c, pc) == callers[c].pc = pc

Goto(c, pc) == callers' = [callers EXCEPT ![c].pc = pc]

\* a caller enters start() or start_dictation()
Call(c, op) ==
  /\ At(c, "idle")
  /\ callers[c].calls < MaxCalls
  /\ callers' = [callers EXCEPT ![c] = Caller(op, @.calls + 1)]
  /\ UNCHANGED race

\* start(): if self.is_running: warning, return
StartCheck(c) ==
  /\ At(c, "start")
  /\ Goto(c, IF race.is_running THEN "idle" ELSE "initialize_components")
  /\ UNCHANGED race

\* start(): initialize_components() builds every component anew; the new
\* transcriber is not running
InitializeComponents(c) ==
  /\ At(c, "initialize_components")
  /\ race' = [race EXCEPT !.inits = @ + 1, !.tr_running = FALSE]
  /\ Goto(c, "main_thread")

\* start(): self.is_running = True; main_thread created and started
StartMainThread(c) ==
  /\ At(c, "main_thread")
  /\ race' = [race EXCEPT !.is_running = TRUE, !.main_threads = @ + 1]
  /\ Goto(c, "idle")

\* start_dictation(): if self.is_dictating: warning, return; without
\* components the first statement raises
StartDictationCheck(c) ==
  /\ At(c, "start_dictation")
  /\ Goto(c, IF race.is_dictating \/ race.inits = 0 THEN "idle"
              ELSE "start_transcription")
  /\ UNCHANGED race

\* start_transcription(): if self.is_running: warning, return
StartTranscriptionCheck(c) ==
  /\ At(c, "start_transcription")
  /\ Goto(c, IF race.tr_running THEN "dictating" ELSE "transcription_thread")
  /\ UNCHANGED race

\* start_transcription(): self.is_running = True; thread created and started
StartTranscriptionThread(c) ==
  /\ At(c, "transcription_thread")
  /\ race' = [race EXCEPT !.tr_running = TRUE, !.consumers = @ + 1]
  /\ Goto(c, "dictating")

\* start_dictation(): self.is_dictating = True
SetDictating(c) ==
  /\ At(c, "dictating")
  /\ race' = [race EXCEPT !.is_dictating = TRUE]
  /\ Goto(c, "idle")

RaceInit ==
  /\ callers = [c \in 1..MaxCallers |-> Caller("idle", 0)]
  /\ race = RaceStopped

RaceIdle == RaceInit

(***************************************************************************)
(* Reconfiguration of the CommandProcessor by a control thread while the   *)
(* consumer thread is inside process_text.  reconf is the processor: its   *)
(* attributes (fields), the compiled patterns, the identity of the         *)
(* commands dict and the position of the control thread; stable is the     *)
(* configuration as of the last completed reconfiguration call.  ptcall is *)
(* the process_text call.                                                  *)
(***************************************************************************)
ReconfOld ==
  [commands |-> <<[phrase |-> PhraseAB, action |-> "KEY_ENTER"]>>,
   command_mode_word |-> NoWord, confidence_threshold |-> 50,
   auto_punctuation |-> FALSE,
   sentence_end_words |-> <<NoWord>>, comma_words |-> <<NoWord>>,
   question_words |-> <<NoWord>>]

ReconfNew == ConfigPunct

ReconfTexts == UNION {[1..k -> CmdChars] : k \in 0..MaxReconfLen}

\* _compile_patterns: the patterns are built from the words of the attributes
CompilePatterns(fields) ==
  [command_mode_word |-> fields.command_mode_word,
   sentence_end_words |-> fields.sentence_end_words,
   comma_words |-> fields.comma_words,
   question_words |-> fields.question_words]

\* the configuration process_text works with: mapping and flags from the
\* attributes, matchers from the compiled patterns
Effective(commands, fields, patterns) ==
  [commands |-> commands,
   command_mode_word |-> patterns.command_mode_word,
   confidence_threshold |-> fields.confidence_threshold,
   auto_punctuation |-> fields.auto_punctuation,
   sentence_end_words |-> patterns.sentence_end_words,
   comma_words |-> patterns.comma_words,
   question_words |-> patterns.question_words]

\* dict assignment: self.commands[phrase] = action
SetItem(commands, phrase, action) ==
  IF \E k \in 1..Len(commands) : commands[k].phrase = phrase
    THEN [k \in 1..Len(commands) |->
            IF commands[k].phrase = phrase
              THEN [phrase |-> phrase, action |-> action] ELSE commands[k]]
  ELSE Append(commands, [phrase |-> phrase, action |-> action])

\* del self.commands[phrase]
DelItem(commands, phrase) ==
  SelectSeq(commands, LAMBDA c : c.phrase # phrase)

\* a reconfiguration call that has returned is in effect as a whole
Completed(r, fields) ==
  [r EXCEPT !.fields = fields, !.ctl = "returned", !.stable = fields]

Seen(config) ==
  ptcall' = IF ptcall.pc = "iterating"
              THEN [ptcall EXCEPT !.window = @ \cup {config}]
            ELSE ptcall

\* update_config, first part: config.update and the attribute assignments;
\* self.commands becomes another dict
UpdateConfigAssign ==
  /\ reconf.ctl = "ready"
  /\ reconf' = [reconf EXCEPT !.fields = ReconfNew, !.dict = @ + 1,
                              !.ctl = "compiling"]
  /\ UNCHANGED ptcall

\* update_config, second part: _compile_patterns
UpdateConfigCompile ==
  /\ reconf.ctl = "compiling"
  /\ reconf' = [Completed(reconf, reconf.fields) EXCEPT
                  !.patterns = CompilePatterns(reconf.fields)]
  /\ Seen(reconf.fields)

\* add_command: the commands dict is changed in place
AddCommand ==
  /\ reconf.ctl = "ready"
  /\ reconf' = Completed(reconf,
                  [reconf.fields EXCEPT
                     !.commands = SetItem(@, PhraseBA, "KEY_TAB")])
  /\ Seen(reconf'.fields)

\* remove_command: the commands dict is changed in place
RemoveCommand ==
  /\ reconf.ctl = "ready"
  /\ reconf' = Completed(reconf,
                  [reconf.fields EXCEPT !.commands = DelItem(@, PhraseAB)])
  /\ Seen(reconf'.fields)

\* process_text up to the for statement of _find_commands_in_mode: the
\* command-mode pattern is searched, the iteration over self.commands.items()
\* begins on the dict that is self.commands now
ProcessTextBegin ==
  /\ ptcall.pc = "idle"
  /\ ptcall' = [ptcall EXCEPT
       !.pc = "iterating",
       !.command_mode =
          CommandModeActive(Effective(<<>>, reconf.fields, reconf.patterns),
                            ptcall.text),
       !.iter_dict = reconf.dict,
       !.iter_commands = reconf.fields.commands,
       !.window = {reconf.stable}]
  /\ UNCHANGED reconf

\* the dict the iteration runs on, as it is now
Iterated == IF ptcall.iter_dict = reconf.dict THEN reconf.fields.commands
            ELSE ptcall.iter_commands

\* the iteration ends: RuntimeError (dictionary changed size during
\* iteration) if the dict has another size than at its beginning; otherwise
\* the punctuation patterns are applied as they are now and the matches
\* sorted
ProcessTextEnd ==
  /\ ptcall.pc = "iterating"
  /\ LET cfg == Effective(Iterated, reconf.fields, reconf.patterns)
          text_lower == Lower(ptcall.text)
     IN  ptcall' =
           IF Len(Iterated) # Len(ptcall.iter_commands)
             THEN [ptcall EXCEPT !.pc = "failed"]
           ELSE [ptcall EXCEPT
                   !.pc = "done",
                   !.result =
                     IF ptcall.command_mode
                       THEN SortByStart(FindCommandsInMode(cfg, text_lower, TRUE))
                     ELSE SortByStart(
                            FindCommandsInMode(cfg, text_lower, FALSE)
                            \o (IF cfg.auto_punctuation
                                  THEN FindPunctuationCommands(cfg, text_lower)
                                ELSE <<>>))]
  /\ UNCHANGED reconf

ReconfStart ==
  [fields |-> ReconfOld, patterns |-> CompilePatterns(ReconfOld), dict |-> 0,
   ctl |-> "ready", stable |-> ReconfOld]

PtCall(text) ==
  [pc |-> "idle", text |-> text, command_mode |-> FALSE, iter_dict |-> 0,
   iter_commands |-> <<>>, window |-> {}, result |-> <<>>]

ReconfIdle == reconf = ReconfStart /\ ptcall = PtCall(<<>>)

(***************************************************************************)
(* The overlap kept after a silence-boundary submission, for configured    *)
(* overlap durations.  A duration is a number of 1/100000 s.               *)
(***************************************************************************)
\* bytes per second: sample_rate * bytes_per_sample
BytesPerSecond == 32000

\* int(sample_rate * bytes_per_sample * overlap_duration)
OverlapByteCount(d) == (BytesPerSecond * d) \div 100000

\* overlap_duration: 0, 0.00001 s (less than one byte), 0.2 s (the default)
\* and 0.5 s (one block)
OverlapDurations == {0, 1, 20000, 50000}

\* buffers of up to MaxRuns runs of loud and quiet blocks
RECURSIVE Joined(_)
Joined(cs) == IF cs = <<>> THEN <<>> ELSE AddBytes(Joined(SubSeq(cs, 1, Len(cs) - 1)), cs[Len(cs)])

OverlapBuffers == {Joined(cs) : cs \in UNION {[1..k -> Chunks] : k \in 0..MaxRuns}}

\* the statements after the Recognizer call of the silence-boundary branch:
\* buffer = buffer[-int(...):] ; silence_buffer = b""
KeepOverlapStep ==
  /\ ~ov_done
  /\ ov_buffer' = KeepOverlap(ov_buffer, OverlapByteCount(overlap_duration))
  /\ ov_window' = <<>>
  /\ ov_done' = TRUE
  /\ UNCHANGED overlap_duration

\* a buffer longer than the minimum utterance whose silence window is quiet
OverlapInit ==
  /\ ov_buffer \in {b \in OverlapBuffers : BufLen(b) > MinUtteranceBytes}
  /\ ov_window \in {Window(<<c>>) : c \in {k \in Chunks : ~k.loud}}
  /\ overlap_duration \in OverlapDurations
  /\ ov_done = FALSE

OverlapIdle ==
  /\ ov_buffer = <<>>
  /\ ov_window = <<>>
  /\ overlap_duration = 0
  /\ ov_done = FALSE

(***************************************************************************)
(* The silence window for configured pause durations.  A duration is a     *)
(* number of 1/10000 s.   Only what decides whether an iteration reaches   *)
(* its checks is kept: the Recognizer's answers play no part.              *)
(***************************************************************************)
\* int(sample_rate * bytes_per_sample * silence_duration)
PauseByteCount(d) == (BytesPerSecond * d) \div 10000

\* pause_duration: 0, 0.3333 s, 0.5 s and 1.0 s (the default)
PauseDurations == {0, 3333, 5000, 10000}

\* silence_buffer[-n:] once it is longer than n bytes
WindowOf(sb, n) == IF BufLen(sb) > n THEN SliceLast(sb, n) ELSE sb

\* np.frombuffer(silence_buffer, dtype=np.int16) raises ValueError unless the
\* buffer is a whole number of two-byte samples
FromBufferRaises(sb) == BufLen(sb) % 2 = 1

\* one pass of the loop on a chunk: the appends and the trimming, then either
\* the exception handler of the loop (log, sleep, continue: buffer and window
\* stay as they are) or the silence-boundary and forced-flush checks
WindowIteration(chunk) ==
  /\ sw_fed < MaxChunks
  /\ sw_fed' = sw_fed + 1
  /\ LET b == AddBytes(sw_buffer, chunk)
         sb == WindowOf(AddBytes(sw_window, chunk), PauseByteCount(pause_duration))
         b2 == AfterSilence(b, sb)
     IN  IF FromBufferRaises(sb)
           THEN /\ sw_buffer' = b
                /\ sw_window' = sb
                /\ sw_outcome' = "raised"
         ELSE /\ sw_buffer' = IF BufLen(b2) > MaxBufferBytes THEN <<>> ELSE b2
              /\ sw_window' = IF IsSilence(sb) \/ BufLen(b2) > MaxBufferBytes
                                THEN <<>> ELSE sb
              /\ sw_outcome' = "checked"
  /\ UNCHANGED pause_duration

WindowInit ==
  /\ sw_buffer = <<>>
  /\ sw_window = <<>>
  /\ pause_duration \in PauseDurations
  /\ sw_fed = 0
  /\ sw_outcome = ""

WindowIdle ==
  /\ sw_buffer = <<>>
  /\ sw_window = <<>>
  /\ pause_duration = 0
  /\ sw_fed = 0
  /\ sw_outcome = ""

(***************************************************************************)
(* The matches of one utterance, executed one after the other by           *)
(* _on_transcription on an injector whose device works or raises on        *)
(* every emit.  device holds the actions whose keys reached the device.    *)
(***************************************************************************)
\* the actions of the matches: a key in key_mappings ('enter'), the action of
\* the sentence-end punctuation (its name 'dot' is not a key of
\* key_mappings, which holds '.'), and the two sentinels
MatchActions == {"KEY_ENTER", "KEY_DOT", "START_DICTATION", "STOP_DICTATION"}

\* key_name in self.key_mappings, for the name the action is reduced to
KnownKey(a) == a \in {"KEY_ENTER", "KEY_CTRL+KEY_A"}

\* the match lists of an utterance
MatchLists == UNION {[1..k -> MatchActions] : k \in 1..MaxMatches}

\* KeystrokeInjector.inject_command: returns without a key on an injector
\* that is not initialized, on an unknown key (a warning) and on a device
\* that raises (_inject_key logs the exception); it never raises
InjectCommand(e, dev, a, ok) ==
  IF e.injector_open /\ KnownKey(a) /\ ok THEN Append(dev, a) ELSE dev

\* the action of the match did not do what it stands for
ActionFailed(e, a, ok) ==
  IF a = "START_DICTATION" THEN StartDictationFails(e)
  ELSE IF a = "STOP_DICTATION" THEN FALSE
  ELSE e.injector_open /\ ~(KnownKey(a) /\ ok)

\* _on_transcription has the matches ms of an utterance
TakeMatches(ms) ==
  /\ mx_pending = <<>>
  /\ mx_count < MaxUtterances
  /\ mx_count' = mx_count + 1
  /\ mx_pending' = ms
  /\ mx_done' = <<>>
  /\ mx_failures' = 0
  /\ mx_errors0' = engine.errors
  /\ UNCHANGED <<engine, sink, device, device_ok>>

\* one pass of "for match in matches: self._execute_command(match)"
ExecuteMatch ==
  /\ mx_pending # <<>>
  /\ LET a == Head(mx_pending)
         es == ExecuteCommand(<<engine, sink>>, [action |-> a])
     IN  /\ engine' = es[1]
         /\ sink' = es[2]
         /\ device' = IF a \in SystemActions THEN device
                      ELSE InjectCommand(engine, device, a, device_ok)
         /\ mx_failures' = mx_failures + (IF ActionFailed(engine, a, device_ok) THEN 1 ELSE 0)
         /\ mx_done' = Append(mx_done, a)
  /\ mx_pending' = Tail(mx_pending)
  /\ UNCHANGED <<mx_count, mx_errors0, device_ok>>

MatchInit ==
  /\ mx_pending = <<>>
  /\ mx_done = <<>>
  /\ mx_failures = 0
  /\ mx_errors0 = 0
  /\ mx_count = 0
  /\ device = <<>>
  /\ device_ok \in BOOLEAN

MatchIdle ==
  /\ mx_pending = <<>>
  /\ mx_done = <<>>
  /\ mx_failures = 0
  /\ mx_errors0 = 0
  /\ mx_count = 0
  /\ device = <<>>
  /\ device_ok = TRUE

(***************************************************************************)
(* Utterances delivered one after the other to _on_transcription, each     *)
(* handled to its end before the next (one consumer thread, no stop).      *)
(***************************************************************************)
Enter == <<"e", "n", "t", "e", "r">>
HeyEnter == Hey \o <<" ">> \o Enter

\* the recognized texts: a command phrase alone, plain text, the stop
\* phrase alone, and plain text followed by a command phrase
UtterTexts == {Enter, Hey, Halt, HeyEnter}

\* _on_transcription(text), whole
OnTranscriptionCall(t) ==
  /\ ut_count < MaxDeliveries
  /\ ut_count' = ut_count + 1
  /\ ut_text' = t
  /\ engine' = OnTranscription(<<engine, sink>>, EngineConfig, t)[1]
  /\ sink' = OnTranscription(<<engine, sink>>, EngineConfig, t)[2]

UtterInit ==
  /\ ut_text = <<>>
  /\ ut_count = 0

UtterIdle ==
  /\ ut_text = <<>>
  /\ ut_count = 0

(***************************************************************************)
(* HotkeyManager: the key events of the listener thread.  A press event    *)
(* for a key that is already down is the keyboard's auto-repeat.           *)
(***************************************************************************)
\* the keys of the keyboard: the default chord and one key outside it
Keys == {"ctrl", "alt", "d", "x"}

\* self.hotkey_combination (toggle_hotkey: ['ctrl', 'alt', 'd'])
HotkeyCombination == {"ctrl", "alt", "d"}

\* HotkeyManager._is_hotkey_pressed
IsHotkeyPressed(pressed) == HotkeyCombination \subseteq pressed

\* DictationEngine._toggle_dictation, the hotkey callback
ToggleDictation(e) == IF e.is_dictating THEN StopDictation(e) ELSE StartDictation(e)

\* HotkeyManager._on_press
OnPress(key) ==
  /\ engine.listening
  /\ key_events < MaxKeyEvents
  /\ key_events' = key_events + 1
  /\ pressed_keys' = pressed_keys \cup {key}
  /\ IF IsHotkeyPressed(pressed_keys')
       THEN /\ engine' = ToggleDictation(engine)
            /\ hold_fires' = hold_fires + 1
     ELSE UNCHANGED <<engine, hold_fires>>
  /\ UNCHANGED sink

\* HotkeyManager._on_release; hold_fires counts the callbacks since the keys
\* of the combination were last not all down
OnRelease(key) ==
  /\ engine.listening
  /\ key_events < MaxKeyEvents
  /\ key_events' = key_events + 1
  /\ pressed_keys' = pressed_keys \ {key}
  /\ hold_fires' = IF key \in HotkeyCombination THEN 0 ELSE hold_fires
  /\ UNCHANGED <<engine, sink>>

HotkeyInit ==
  /\ pressed_keys = {}
  /\ hold_fires = 0
  /\ key_events = 0

HotkeyIdle ==
  /\ pressed_keys = {}
  /\ hold_fires = 0
  /\ key_events = 0

\* the variables of the later specifications at their idle value
LateIdle == WindowIdle /\ MatchIdle /\ UtterIdle /\ HotkeyIdle

QueueIdle == audio_queue = <<>> /\ capture_queue = <<>> /\ puts = 0

\* every variable of the audio path, the races and the pure functions below
\* at its idle value
AuxIdle == QueueIdle /\ RaceIdle /\ ReconfIdle /\ OverlapIdle /\ LateIdle

(***************************************************************************)
(* Specifications                                                          *)
(***************************************************************************)
DedupNext == CallIsNewContent /\ UNCHANGED <<cmdVars, loopVars, engineVars, threadVars, auxVars>>

InitDedup == DedupInit /\ CmdIdle /\ LoopIdle /\ EngineIdle /\ ThreadsIdle /\ AuxIdle

SpecDedup == InitDedup /\ [][DedupNext]_vars

CmdNext == ProcessAndExtract /\ UNCHANGED <<dedupVars, loopVars, engineVars, threadVars, auxVars>>

InitCmd == CmdInit /\ DedupIdle /\ LoopIdle /\ EngineIdle /\ ThreadsIdle /\ AuxIdle

SpecCmd == InitCmd /\ [][CmdNext]_vars

LoopNext ==
  \/ GetChunk /\ UNCHANGED <<dedupVars, cmdVars, threadVars, auxVars>>
  \/ ReadTimeout /\ UNCHANGED <<dedupVars, cmdVars, threadVars, auxVars>>

InitLoop ==
  LoopInit /\ engine = EngineDictating /\ sink = <<>> /\ ThreadsIdle /\ DedupIdle /\ CmdIdle
  /\ AuxIdle

SpecLoop == InitLoop /\ [][LoopNext]_vars

EngineNext ==
  \/ Start /\ UNCHANGED <<dedupVars, cmdVars, loopVars, auxVars>>
  \/ Stop /\ UNCHANGED <<dedupVars, cmdVars, loopVars, auxVars>>
  \/ StartDictationCall /\ UNCHANGED <<dedupVars, cmdVars, loopVars, auxVars>>
  \/ StopDictationCall /\ UNCHANGED <<dedupVars, cmdVars, loopVars, auxVars>>
  \/ HotkeyToggle /\ UNCHANGED <<dedupVars, cmdVars, loopVars, auxVars>>
  \/ StartFails /\ UNCHANGED <<dedupVars, cmdVars, loopVars, auxVars>>
  \/ \E i \in 1..MaxThreads : RecognizeFails(i) /\ UNCHANGED <<dedupVars, cmdVars, loopVars, auxVars>>
  \/ \E i \in 1..MaxThreads : Recognize(i) /\ UNCHANGED <<dedupVars, cmdVars, loopVars, auxVars>>
  \/ \E i \in 1..MaxThreads : Deliver(i) /\ UNCHANGED <<dedupVars, cmdVars, loopVars, auxVars>>
  \/ \E i \in 1..MaxThreads : TypeChar(i) /\ UNCHANGED <<dedupVars, cmdVars, loopVars, auxVars>>
  \/ \E i \in 1..MaxThreads : ThreadExit(i) /\ UNCHANGED <<dedupVars, cmdVars, loopVars, auxVars>>

InitEngine == EngineIdle /\ ThreadsIdle /\ DedupIdle /\ CmdIdle /\ LoopIdle /\ AuxIdle

SpecEngine == InitEngine /\ [][EngineNext]_vars

\* the engine with pause() and resume()
PauseNext ==
  \/ EngineNext
  \/ Pause /\ UNCHANGED <<dedupVars, cmdVars, loopVars, auxVars>>
  \/ Resume /\ UNCHANGED <<dedupVars, cmdVars, loopVars, auxVars>>

InitPause == InitEngine

SpecPause == InitPause /\ [][PauseNext]_vars

\* the engine with failing callbacks and failing input streams
FaultNext ==
  \/ EngineNext
  \/ StartDictationCallRaises /\ UNCHANGED <<dedupVars, cmdVars, loopVars, auxVars>>
  \/ HotkeyToggleRaises /\ UNCHANGED <<dedupVars, cmdVars, loopVars, auxVars>>
  \/ \E i \in 1..MaxThreads : DeliverRaises(i) /\ UNCHANGED <<dedupVars, cmdVars, loopVars, auxVars>>
  \/ \E i \in 1..MaxThreads : TypeCharRaises(i) /\ UNCHANGED <<dedupVars, cmdVars, loopVars, auxVars>>
  \/ \E i \in 1..MaxThreads : CountError(i) /\ UNCHANGED <<dedupVars, cmdVars, loopVars, auxVars>>
  \/ \E i \in 1..MaxThreads : IterationRaises(i) /\ UNCHANGED <<dedupVars, cmdVars, loopVars, auxVars>>

\* the engine after start(), no start() left to the model
InitFault ==
  /\ engine = EngineStarted
  /\ sink = <<>>
  /\ threads = [i \in 1..MaxThreads |-> NoThread]
  /\ generation = MaxStarts
  /\ last_op = Op("start", EngineStopped, "ok")
  /\ is_paused = Unpaused
  /\ DedupIdle /\ CmdIdle /\ LoopIdle /\ AuxIdle

SpecFault == InitFault /\ [][FaultNext]_vars

\* the started engine with its threads scheduled fairly: a Recognizer call in
\* progress returns, inject_text goes on typing, and a thread at the head of
\* its loop whose running flag is cleared leaves the loop (the queue wait is
\* bounded by its timeout).  Calls of the control operations and the arrival
\* of audio are not required to happen.
InitStop == InitFault

Returns(i) ==
  (RecognizeFails(i) \/ Deliver(i)) /\ UNCHANGED <<dedupVars, cmdVars, loopVars, auxVars>>

Types(i) == TypeChar(i) /\ UNCHANGED <<dedupVars, cmdVars, loopVars, auxVars>>

Exits(i) == ThreadExit(i) /\ UNCHANGED <<dedupVars, cmdVars, loopVars, auxVars>>

ThreadFairness ==
  \A i \in 1..MaxThreads :
    WF_vars(Returns(i)) /\ WF_vars(Types(i)) /\ WF_vars(Exits(i))

SpecStop == InitStop /\ [][EngineNext]_vars /\ ThreadFairness

\* the audio path between capture callback and consumer loop
QueueNext ==
  \/ AudioCallback /\ UNCHANGED <<dedupVars, cmdVars, loopVars, sink, threadVars, raceVars, reconfVars, overlapVars, lateVars>>
  \/ AddAudioDataCall /\ UNCHANGED <<dedupVars, cmdVars, loopVars, sink, threadVars, raceVars, reconfVars, overlapVars, lateVars>>
  \/ StartTranscription /\ UNCHANGED <<dedupVars, cmdVars, loopVars, sink, threadVars, raceVars, reconfVars, overlapVars, lateVars>>
  \/ StopTranscription /\ UNCHANGED <<dedupVars, cmdVars, loopVars, sink, threadVars, raceVars, reconfVars, overlapVars, lateVars>>
  \/ ConsumerGet /\ UNCHANGED <<dedupVars, cmdVars, loopVars, sink, threadVars, raceVars, reconfVars, overlapVars, lateVars>>

InitQueue == QueueIdle /\ RaceIdle /\ ReconfIdle /\ OverlapIdle /\ LateIdle /\ EngineIdle /\ ThreadsIdle /\ DedupIdle /\ CmdIdle /\ LoopIdle

SpecQueue == InitQueue /\ [][QueueNext]_vars

\* _execute_command applied to matches of every action, from an engine that
\* was never started, one that was started and one that is dictating
ExecNext ==
  \E a \in ExecActions :
    ExecuteCommandCall(a) /\ UNCHANGED <<dedupVars, cmdVars, loopVars, auxVars>>

InitExec ==
  /\ engine \in {EngineStopped, EngineStarted, EngineDictating}
  /\ sink = <<>>
  /\ ThreadsIdle /\ DedupIdle /\ CmdIdle /\ LoopIdle /\ AuxIdle

SpecExec == InitExec /\ [][ExecNext]_vars

\* start() and start_dictation() called by MaxCallers threads, no stop()
RaceNext ==
  \E c \in 1..MaxCallers :
    \/ Call(c, "start") /\ UNCHANGED <<dedupVars, cmdVars, loopVars, engineVars, threadVars, queueVars, reconfVars, overlapVars, lateVars>>
    \/ Call(c, "start_dictation") /\ UNCHANGED <<dedupVars, cmdVars, loopVars, engineVars, threadVars, queueVars, reconfVars, overlapVars, lateVars>>
    \/ StartCheck(c) /\ UNCHANGED <<dedupVars, cmdVars, loopVars, engineVars, threadVars, queueVars, reconfVars, overlapVars, lateVars>>
    \/ InitializeComponents(c) /\ UNCHANGED <<dedupVars, cmdVars, loopVars, engineVars, threadVars, queueVars, reconfVars, overlapVars, lateVars>>
    \/ StartMainThread(c) /\ UNCHANGED <<dedupVars, cmdVars, loopVars, engineVars, threadVars, queueVars, reconfVars, overlapVars, lateVars>>
    \/ StartDictationCheck(c) /\ UNCHANGED <<dedupVars, cmdVars, loopVars, engineVars, threadVars, queueVars, reconfVars, overlapVars, lateVars>>
    \/ StartTranscriptionCheck(c) /\ UNCHANGED <<dedupVars, cmdVars, loopVars, engineVars, threadVars, queueVars, reconfVars, overlapVars, lateVars>>
    \/ StartTranscriptionThread(c) /\ UNCHANGED <<dedupVars, cmdVars, loopVars, engineVars, threadVars, queueVars, reconfVars, overlapVars, lateVars>>
    \/ SetDictating(c) /\ UNCHANGED <<dedupVars, cmdVars, loopVars, engineVars, threadVars, queueVars, reconfVars, overlapVars, lateVars>>

InitRace ==
  RaceInit /\ QueueIdle /\ ReconfIdle /\ OverlapIdle /\ LateIdle /\ EngineIdle /\ ThreadsIdle /\ DedupIdle /\ CmdIdle /\ LoopIdle

SpecRace == InitRace /\ [][RaceNext]_vars

\* one process_text call and one reconfiguration call on another thread
ReconfNext ==
  \/ UpdateConfigAssign /\ UNCHANGED <<dedupVars, cmdVars, loopVars, engineVars, threadVars, queueVars, raceVars, overlapVars, lateVars>>
  \/ UpdateConfigCompile /\ UNCHANGED <<dedupVars, cmdVars, loopVars, engineVars, threadVars, queueVars, raceVars, overlapVars, lateVars>>
  \/ AddCommand /\ UNCHANGED <<dedupVars, cmdVars, loopVars, engineVars, threadVars, queueVars, raceVars, overlapVars, lateVars>>
  \/ RemoveCommand /\ UNCHANGED <<dedupVars, cmdVars, loopVars, engineVars, threadVars, queueVars, raceVars, overlapVars, lateVars>>
  \/ ProcessTextBegin /\ UNCHANGED <<dedupVars, cmdVars, loopVars, engineVars, threadVars, queueVars, raceVars, overlapVars, lateVars>>
  \/ ProcessTextEnd /\ UNCHANGED <<dedupVars, cmdVars, loopVars, engineVars, threadVars, queueVars, raceVars, overlapVars, lateVars>>

InitReconf ==
  /\ reconf = ReconfStart
  /\ ptcall \in {PtCall(t) : t \in ReconfTexts}
  /\ QueueIdle /\ RaceIdle /\ OverlapIdle /\ LateIdle
  /\ EngineIdle /\ ThreadsIdle /\ DedupIdle /\ CmdIdle /\ LoopIdle

SpecReconf == InitReconf /\ [][ReconfNext]_vars

\* the overlap statement applied to bounded buffers and overlap durations
OverlapNext ==
  KeepOverlapStep
  /\ UNCHANGED <<dedupVars, cmdVars, loopVars, engineVars, threadVars, queueVars, raceVars, reconfVars, lateVars>>

InitOverlap ==
  /\ OverlapInit
  /\ QueueIdle /\ RaceIdle /\ ReconfIdle /\ LateIdle
  /\ EngineIdle /\ ThreadsIdle /\ DedupIdle /\ CmdIdle /\ LoopIdle

SpecOverlap == InitOverlap /\ [][OverlapNext]_vars

\* every variable that is not of the later specifications
earlyVars ==
  <<dedupVars, cmdVars, loopVars, engineVars, threadVars, queueVars, raceVars,
    reconfVars, overlapVars>>

\* the loop's window handling on bounded streams of whole-sample chunks
WindowNext == \E chunk \in Chunks : WindowIteration(chunk) /\ UNCHANGED <<earlyVars, matchVars, utterVars, hotkeyVars>>

InitWindow ==
  /\ WindowInit /\ MatchIdle /\ UtterIdle /\ HotkeyIdle
  /\ QueueIdle /\ RaceIdle /\ ReconfIdle /\ OverlapIdle
  /\ EngineIdle /\ ThreadsIdle /\ DedupIdle /\ CmdIdle /\ LoopIdle

SpecWindow == InitWindow /\ [][WindowNext]_vars

\* the matches of bounded utterances executed on an engine that was never
\* started, one that was started and one that is dictating
MatchNext ==
  \/ \E ms \in MatchLists :
       TakeMatches(ms)
       /\ UNCHANGED <<dedupVars, cmdVars, loopVars, threadVars, queueVars, raceVars,
                      reconfVars, overlapVars, windowVars, utterVars, hotkeyVars>>
  \/ ExecuteMatch
     /\ UNCHANGED <<dedupVars, cmdVars, loopVars, threadVars, queueVars, raceVars,
                    reconfVars, overlapVars, windowVars, utterVars, hotkeyVars>>

InitMatch ==
  /\ MatchInit
  /\ engine \in {EngineStopped, EngineStarted, EngineDictating}
  /\ sink = <<>>
  /\ QueueIdle /\ RaceIdle /\ ReconfIdle /\ OverlapIdle /\ WindowIdle /\ UtterIdle /\ HotkeyIdle
  /\ ThreadsIdle /\ DedupIdle /\ CmdIdle /\ LoopIdle

SpecMatch == InitMatch /\ [][MatchNext]_vars

\* bounded runs of utterances on an engine that is started or dictating
UtterNext ==
  \E t \in UtterTexts :
    OnTranscriptionCall(t)
    /\ UNCHANGED <<dedupVars, cmdVars, loopVars, threadVars, queueVars, raceVars,
                   reconfVars, overlapVars, windowVars, matchVars, hotkeyVars>>

InitUtter ==
  /\ UtterInit
  /\ engine \in {EngineStarted, EngineDictating}
  /\ sink = <<>>
  /\ QueueIdle /\ RaceIdle /\ ReconfIdle /\ OverlapIdle /\ WindowIdle /\ MatchIdle /\ HotkeyIdle
  /\ ThreadsIdle /\ DedupIdle /\ CmdIdle /\ LoopIdle

SpecUtter == InitUtter /\ [][UtterNext]_vars

\* bounded runs of key events on a started engine
HotkeyNext ==
  \/ \E key \in Keys :
       OnPress(key)
       /\ UNCHANGED <<dedupVars, cmdVars, loopVars, threadVars, queueVars, raceVars,
                      reconfVars, overlapVars, windowVars, matchVars, utterVars>>
  \/ \E key \in Keys :
       OnRelease(key)
       /\ UNCHANGED <<dedupVars, cmdVars, loopVars, threadVars, queueVars, raceVars,
                      reconfVars, overlapVars, windowVars, matchVars, utterVars>>

InitHotkey ==
  /\ HotkeyInit
  /\ engine \in {EngineStarted, EngineDictating}
  /\ sink = <<>>
  /\ QueueIdle /\ RaceIdle /\ ReconfIdle /\ OverlapIdle
  /\ WindowIdle /\ MatchIdle /\ UtterIdle
  /\ ThreadsIdle /\ DedupIdle /\ CmdIdle /\ LoopIdle

SpecHotkey == InitHotkey /\ [][HotkeyNext]_vars

(***************************************************************************)
(* Claims about the command recognizer (SpecCmd)                           *)
(***************************************************************************)
Span(m) == m.start_pos .. (m.end_pos - 1)

SpansOverlap(m1, m2) == Span(m1) \cap Span(m2) # {}

\* C5: when two configured phrases match overlapping spans of the text,
\* process_text returns exactly one match for that region, the one of the
\* longer phrase: no returned match overlaps another returned match of a
\* configured command phrase.
C5_LongestMatchPrecedence ==
  cp_done =>
    \A i, j \in 1..Len(matches) :
      (i # j /\ matches[i].confidence = 100 /\ matches[j].confidence = 100)
        => ~SpansOverlap(matches[i], matches[j])

\* C6: every match returned by process_text has
\* 0 <= start_pos < end_pos <= len(text), and no two returned matches
\* (command phrases and punctuation words alike) have overlapping spans.
C6_SpanValidity ==
  cp_done =>
    /\ \A i \in 1..Len(matches) :
         /\ 0 <= matches[i].start_pos
         /\ matches[i].start_pos < matches[i].end_pos
         /\ matches[i].end_pos <= Len(cp_text)
    /\ \A i, j \in 1..Len(matches) :
         i # j => ~SpansOverlap(matches[i], matches[j])

\* the characters of t at positions lying outside every span of ms
RECURSIVE Uncovered(_, _, _)
Uncovered(t, ms, i) ==
  IF i >= Len(t) THEN <<>>
  ELSE (IF \E k \in 1..Len(ms) : i \in Span(ms[k]) THEN <<>> ELSE <<t[i + 1]>>)
       \o Uncovered(t, ms, i + 1)

\* C7: for the match list that process_text returns, extract_clean_text
\* deletes exactly the characters covered by the match spans and no
\* character outside every span, then normalizes whitespace.
C7_ExtractionExact ==
  (cp_done /\ matches # <<>>) =>
    clean_text = Strip(CollapseSpaces(Uncovered(cp_text, matches, 0)))

(***************************************************************************)
(* Claims about deduplication (SpecDedup)                                  *)
(***************************************************************************)
Norm(s) == [i \in 1..Len(Strip(s)) |->
              IF Strip(s)[i] = "A" THEN "a" ELSE Strip(s)[i]]

\* C8: is_new_content(x, x) is false for every non-empty text x, also when
\* the two copies differ only in letter case or surrounding whitespace.
C8_DedupIdempotent ==
  (dd_done /\ new_text # <<>> /\ last_text # <<>>
     /\ Norm(new_text) = Norm(last_text)) => ~is_new

\* C8 witness: two different non-blank copies of one text were compared
C8_Witness ==
  /\ dd_done
  /\ new_text # last_text
  /\ Norm(new_text) = Norm(last_text)
  /\ Len(Norm(new_text)) > 3
  /\ Lower(new_text) # Lower(last_text)
  /\ Strip(new_text) # Strip(last_text)

ProperSubstr(a, b) == a # b /\ IsSubstr(a, b)

\* C9: if the normalized new text is a proper substring of the last text,
\* is_new_content is false; if the last text is a proper substring of the
\* new text, is_new_content is true exactly when
\* 10 * len(new) > 13 * len(last).
C9_ExpansionContraction ==
  dd_done =>
    /\ ProperSubstr(Norm(new_text), Norm(last_text)) => ~is_new
    /\ ProperSubstr(Norm(last_text), Norm(new_text)) =>
         (is_new <=> 10 * Len(Norm(new_text)) > 13 * Len(Norm(last_text)))

\* C9 witness: an expansion that is not materially longer was rejected
C9_Witness ==
  /\ dd_done
  /\ ProperSubstr(Norm(last_text), Norm(new_text))
  /\ Len(Norm(last_text)) > 0
  /\ ~is_new

(***************************************************************************)
(* Claims about the consumer loop (SpecLoop)                               *)
(***************************************************************************)
\* C2: on every flush path (silence boundary, forced flush, read timeout) a
\* non-empty recognized text is delivered to the callback and becomes the
\* last accepted text if and only if _is_new_content(text, last accepted)
\* is true.
C2_DedupOnEveryPath ==
  \A i \in 1..Len(flushes) :
    flushes[i].result # <<>> =>
      (flushes[i].delivered <=> IsNewContent(flushes[i].result, flushes[i].prev_last))

\* new was accepted by rule 4: last is contained in new and new is more than
\* 1.3 times as long
AcceptedAsExpansion(new, last) ==
  LET nn == Strip(Lower(new))
      ln == Strip(Lower(last))
  IN  /\ last # <<>>
      /\ nn # ln
      /\ ~IsSubstr(nn, ln)
      /\ IsSubstr(ln, nn)
      /\ ExpansionIsNew(nn, ln)

\* the sink entry is the typed form of the recognized text t
TypedFrom(entry, t) ==
  /\ entry.action = ""
  /\ entry.text \in {CleanTranscriptionText(t), <<" ">> \o CleanTranscriptionText(t)}

\* the sink holds the text of `earlier` followed by the text of `later`
HoldsBoth(earlier, later) ==
  \E j, k \in 1..Len(sink) :
    j < k /\ TypedFrom(sink[j], earlier) /\ TypedFrom(sink[k], later)

\* C3: when a text is accepted as a materially longer expansion of the last
\* accepted text (rule 4), the earlier text is superseded: the sink does not
\* hold the earlier text followed by its expanded re-transcription.
C3_CorrectionSupersedes ==
  \A i \in 1..Len(flushes) :
    (flushes[i].delivered /\ AcceptedAsExpansion(flushes[i].result, flushes[i].prev_last))
      => ~HoldsBoth(flushes[i].prev_last, flushes[i].result)

\* C4: the utterance buffer never holds more than ten seconds of audio
\* (MaxBufferBytes), whatever the chunk sizes.
C4_ForcedFlushBound == peak <= MaxBufferBytes

(***************************************************************************)
(* Claims about the engine (SpecEngine)                                    *)
(***************************************************************************)
\* the threads that are inside _on_transcription
Processing == {i \in 1..MaxThreads : threads[i].pc = "typing"}

\* C1: the processing of one utterance (commands, then text injection)
\* completes before the processing of the next one begins, so the texts of
\* two utterances are never being injected at the same time.
C1_OneUtteranceAtATime == Cardinality(Processing) <= 1

\* C10: every reachable state with is_dictating = TRUE has is_running = TRUE.
C10_DictatingOnlyWhenRunning == engine.is_dictating => engine.is_running

\* C11: stop() called in any state leaves the engine stopped with dictation
\* off: after a stop() call is_running and is_dictating are both FALSE.
C11_StopLeavesStopped ==
  last_op.op = "stop" => ~engine.is_running /\ ~engine.is_dictating

\* C12: start() called on a running engine changes nothing: the engine, its
\* components (generation), the threads and the output stay as they were and
\* the call ends with the warning.
C12_StartIdempotent ==
  [][(last_op'.op = "start" /\ engine.is_running)
       => /\ engine' = engine
          /\ generation' = generation
          /\ threads' = threads
          /\ sink' = sink
          /\ last_op'.outcome = "warned"]_vars

\* start() has returned early on an engine that start() had set running
C12_Witness ==
  /\ last_op.op = "start"
  /\ last_op.outcome = "warned"
  /\ engine.is_running
  /\ generation = 1

\* a consumer thread of the engine's transcriber is alive
ConsumerAlive == \E i \in 1..MaxThreads : threads[i].pc # "none" /\ threads[i].tr = generation

\* C13: a running engine has audio delivery and the consumer thread active,
\* so that a spoken command is heard while the engine is not dictating, also
\* before the first start_dictation().
C13_RunningHearsCommands ==
  engine.is_running => engine.recording /\ engine.tr_running /\ ConsumerAlive

\* thread i leaves the Recognizer and its text reaches the engine's callback
Delivery(i) ==
  threads[i].pc = "recognizing" /\ threads'[i].pc # "recognizing" /\ last_op'.op = "deliver"

\* the commands process_text finds in the text of thread i
CommandsOf(i) == ProcessText(EngineConfig, CleanTranscriptionText(threads[i].text), 100)

\* the dictation flag after the toggles among the matches ms, from d
RECURSIVE Toggled(_, _)
Toggled(d, ms) ==
  IF ms = <<>> THEN d
  ELSE Toggled(IF Head(ms).action = "START_DICTATION" THEN TRUE
               ELSE IF Head(ms).action = "STOP_DICTATION" THEN FALSE
               ELSE d, Tail(ms))

\* C14: every command of a delivered utterance is executed whether or not
\* the engine is dictating, and inject_text is entered only if the engine is
\* dictating once the commands of the utterance have run.
C14_OnlyInjectionGated ==
  [][\A i \in 1..MaxThreads :
       Delivery(i) =>
         /\ engine'.total_commands = engine.total_commands + Len(CommandsOf(i))
         /\ engine'.is_dictating = Toggled(engine.is_dictating, CommandsOf(i))
         /\ threads'[i].pc = "typing" => engine'.is_dictating]_vars

\* an utterance delivered while the engine was not dictating had its
\* START_DICTATION executed, and its text is being typed
C14_Witness ==
  /\ last_op.op = "deliver"
  /\ ~last_op.was_dictating
  /\ engine.is_dictating
  /\ \E i \in 1..MaxThreads : threads[i].pc = "typing"

C16_NotRunningProcessesNothing ==
  [][\A i \in 1..MaxThreads :
       (Delivery(i) /\ ~engine.is_running)
         => engine' = engine /\ sink' = sink /\ threads'[i].pc # "typing"]_vars

\* thread i returns from _transcription_loop
ThreadEnded(i) == threads[i].pc # "none" /\ threads'[i].pc = "none"

\* the is_running flag of the transcriber of thread i is FALSE after the step
FlagCleared(i) ==
  IF threads[i].tr = generation' THEN ~engine'.tr_running ELSE ~threads[i].tr_running

\* C17: no failure ends the consumer thread: a thread returns only from the
\* top of its loop and only when the running flag of its transcriber has
\* been cleared, whatever the Recognizer or the callback did before.
C17_FailureIsolation ==
  [][\A i \in 1..MaxThreads :
       ThreadEnded(i) => threads[i].pc = "idle" /\ FlagCleared(i)]_vars

\* a callback has raised and was counted, then the Recognizer has failed,
\* and the one thread is back at the top of its loop with the flag set
C17_Witness ==
  /\ last_op.op = "recognize"
  /\ last_op.outcome = "raised"
  /\ engine.errors > 0
  /\ Cardinality({i \in 1..MaxThreads : threads[i].pc # "none"}) = 1
  /\ \E i \in 1..MaxThreads : threads[i].pc = "idle" /\ LoopRunning(threads[i])

\* C18: when the initialization of the components fails during start(), the
\* engine is left stopped: is_running and is_dictating are FALSE.
C18_FailedStartLeavesStopped ==
  (last_op.op = "start" /\ last_op.outcome = "raised")
    => ~engine.is_running /\ ~engine.is_dictating

\* C19: at a read timeout a buffer that holds at least the minimum
\* utterance duration is submitted to the Recognizer as a whole and both
\* buffers are reset; a shorter buffer is discarded without a submission.
C19_TrailingSpeechFlushed ==
  [][(chunks_fed' = chunks_fed /\ (buffer # <<>> \/ silence_buffer # <<>>))
       => /\ buffer' = <<>>
          /\ silence_buffer' = <<>>
          /\ IF BufLen(buffer) >= MinUtteranceBytes
               THEN /\ Len(flushes') = 1
                    /\ flushes'[1].path = "timeout"
                    /\ flushes'[1].submitted = BufLen(buffer)
             ELSE flushes' = <<>>]_vars

\* C20: no statistics counter ever decreases, also when a control call and
\* a consumer thread count an error at the same time.
C20_CountersMonotone ==
  [][/\ engine'.total_transcriptions >= engine.total_transcriptions
     /\ engine'.total_commands >= engine.total_commands
     /\ engine'.total_characters >= engine.total_characters
     /\ engine'.errors >= engine.errors]_vars

\* the matches of the text whatever the confidence: both branches of
\* process_text below the threshold test
MatchesAtFullConfidence ==
  LET text_lower == Lower(cp_text)
  IN  IF CommandModeActive(cp_config, cp_text)
        THEN SortByStart(FindCommandsInMode(cp_config, text_lower, TRUE))
      ELSE SortByStart(
             FindCommandsInMode(cp_config, text_lower, FALSE)
             \o (IF cp_config.auto_punctuation
                   THEN FindPunctuationCommands(cp_config, text_lower)
                 ELSE <<>>))

\* C24: process_text returns the empty list whenever the confidence is below
\* confidence_threshold, and the matches of the text whenever the confidence
\* is equal to the threshold or above it.
C24_ConfidenceThreshold ==
  cp_done =>
    IF cp_confidence < cp_config.confidence_threshold
      THEN matches = <<>>
    ELSE matches = MatchesAtFullConfidence

\* a text with a command, processed with a confidence equal to the threshold
C24_Witness ==
  /\ cp_done
  /\ cp_confidence = cp_config.confidence_threshold
  /\ matches # <<>>

\* the threads at the head of the consumer loop of transcriber g with the
\* running flag set: each of them goes on to audio_queue.get
ConsumersOf(g) ==
  {i \in 1..MaxThreads :
     threads[i].pc = "idle" /\ threads[i].tr = g /\ LoopRunning(threads[i])}

\* C26: at most one consumer loop drains the queue of a transcriber, also
\* after stop_transcription() and start_transcription() have been called
\* again: a thread that outlived the join of the stop does not loop next to
\* the thread the following start created.
C26_SingleConsumer == Cardinality(ConsumersOf(generation)) <= 1

\* C28: cooperative shutdown: once the running flag of its transcriber has
\* been cleared by stop_transcription(), a consumer thread eventually leaves
\* its loop and ends, provided the Recognizer call in progress returns.
C28_StopEndsLoop ==
  \A i \in 1..MaxThreads :
    (threads[i].pc # "none" /\ ~LoopRunning(threads[i])) ~> (threads[i].pc = "none")

\* the loop took a chunk and found the silence window quiet: the window is
\* empty afterwards and no forced flush emptied it
SilenceBoundary ==
  /\ chunks_fed' = chunks_fed + 1
  /\ silence_buffer' = <<>>
  /\ \A k \in 1..Len(flushes') : flushes'[k].path # "forced"

\* C29: at a silence boundary the buffer is submitted to the Recognizer,
\* without its trailing silence, if and only if it holds at least the minimum
\* utterance duration (a buffer of exactly the minimum is submitted); a
\* shorter buffer is discarded without a Recognizer call.  The silence window
\* is empty afterwards in both cases.
C29_SilenceBoundaryMinimum ==
  [][SilenceBoundary =>
       IF peak' >= MinUtteranceBytes
         THEN /\ Len(flushes') = 1
              /\ flushes'[1].path = "silence"
              /\ flushes'[1].submitted =
                   BufLen(Utterance(AddBytes(buffer, [loud |-> FALSE, n |-> peak' - BufLen(buffer)]),
                                    Window(AddBytes(silence_buffer,
                                                    [loud |-> FALSE, n |-> peak' - BufLen(buffer)]))))
       ELSE flushes' = <<>> /\ buffer' = <<>>]_vars

(***************************************************************************)
(* Claims about the audio path (SpecQueue)                                 *)
(***************************************************************************)
\* C21: audio blocks are held only in bounded queues: however rarely the
\* consumer takes a block, neither the transcriber's queue nor the capture's
\* own queue grows with the number of blocks delivered; whatever the fixed
\* capacity, once more blocks than that have been delivered some of them have
\* been dropped, so that a queue never holds all MaxPuts blocks
C21_QueuesBounded ==
  /\ Len(audio_queue) < MaxPuts
  /\ Len(capture_queue) < MaxPuts

\* C22: add_audio_data(chunk) appends the block to the transcriber's queue:
\* the queue grows by one and, on a freshly constructed transcriber, the block
\* is the next one taken from it
C22_AddAppends ==
  [][puts' = puts + 1 => audio_queue' = Append(audio_queue, puts')]_vars

(***************************************************************************)
(* Claims about _execute_command (SpecExec)                                *)
(***************************************************************************)
\* _execute_command ran the action a to its end
Executed(a) ==
  last_op'.op = a /\ engine'.total_commands = engine.total_commands + 1

\* C23: a match whose action is START_DICTATION or STOP_DICTATION is handled
\* by the engine itself (start_dictation / stop_dictation) and nothing is
\* handed to inject_command; a match with any other action is handed to
\* inject_command and leaves the dictation flag alone.
C23_SentinelsIntercepted ==
  [][\A a \in ExecActions :
       Executed(a) =>
         IF a = "START_DICTATION"
           THEN sink' = sink /\ engine'.is_dictating
         ELSE IF a = "STOP_DICTATION"
           THEN sink' = sink /\ ~engine'.is_dictating
         ELSE /\ engine'.is_dictating = engine.is_dictating
              /\ engine.injector_open => sink' = Append(sink, TypedKey(a))]_vars

\* a spoken STOP_DICTATION switched dictation off after a key action had been
\* forwarded, and the sink holds key actions only
C23_Witness ==
  /\ last_op.op = "STOP_DICTATION"
  /\ last_op.was_dictating
  /\ ~engine.is_dictating
  /\ sink # <<>>
  /\ \A k \in 1..Len(sink) : sink[k].action \in {"KEY_ENTER", "KEY_CTRL+KEY_A"}

(***************************************************************************)
(* Claims about racing control operations (SpecRace)                       *)
(***************************************************************************)
\* C25: control operations called at the same time behave as if they had
\* been called one after the other: with start() and start_dictation()
\* called by several threads and no stop(), the components are initialized
\* once, and at most one main thread and one consumer thread are started.
C25_RacingStartsSerial ==
  /\ race.inits <= 1
  /\ race.main_threads <= 1
  /\ race.consumers <= 1

(***************************************************************************)
(* Claims about reconfiguration (SpecReconf)                               *)
(***************************************************************************)
\* C27: reconfiguration is atomic with respect to recognition: a
\* process_text call that runs while update_config, add_command or
\* remove_command is called on another thread does not fail, and its matches
\* are those of one complete configuration, the one before or the one after
\* the reconfiguration, never those of a mixture of the two.
C27_ReconfigurationAtomic ==
  /\ ptcall.pc # "failed"
  /\ ptcall.pc = "done" =>
       \E c \in ptcall.window : ptcall.result = ProcessText(c, ptcall.text, 100)

(***************************************************************************)
(* Claims about the overlap (SpecOverlap)                                  *)
(***************************************************************************)
\* C30: after a silence-boundary submission the buffer is exactly the final
\* bytes of the buffer before the flush, as many as the overlap duration
\* amounts to: it is never longer than the overlap byte count, for every
\* overlap_duration (0 and durations of less than one byte included), and the
\* silence window is empty.
C30_OverlapAfterFlush ==
  [][ov_done' /\ ~ov_done =>
       /\ BufLen(ov_buffer') <= OverlapByteCount(overlap_duration)
       /\ ov_buffer' = LastBytes(ov_buffer, OverlapByteCount(overlap_duration))
       /\ ov_window' = <<>>]_vars

(***************************************************************************)
(* Claims about the silence window (SpecLoop)                              *)
(***************************************************************************)
\* the bytes of the chunk the loop has just taken
ChunkTaken == peak' - BufLen(buffer)

\* C31: an utterance boundary is triggered only by pause_duration seconds of
\* silence: the silence branch is taken only when the silence window holds
\* the full configured duration of quiet audio, so a shorter quiet stretch
\* (one quiet chunk right after the window was reset) does not end or discard
\* the utterance.
C31_BoundaryNeedsFullPause ==
  [][SilenceBoundary => BufLen(silence_buffer) + ChunkTaken >= SilenceBytes]_vars

(***************************************************************************)
(* Claims about the silence window for configured durations (SpecWindow)   *)
(***************************************************************************)
\* C32: for every configured pause_duration and every stream of whole-sample
\* chunks the trimmed silence window has an even byte length, so that the RMS
\* computation never fails and every iteration reaches the silence-boundary
\* and forced-flush checks.
C32_WindowWholeSamples ==
  /\ BufLen(sw_window) % 2 = 0
  /\ sw_outcome # "raised"

(***************************************************************************)
(* The deduplication procedure, rule by rule (SpecDedup)                   *)
(***************************************************************************)
\* a text compared case-insensitively and whitespace-normalized: lower case,
\* no surrounding whitespace, every run of whitespace a single space
WhitespaceNormalized(s) == CollapseSpaces(Strip(Lower(s)))

\* rules 5 to 9 on the words of the two texts
RulesOnWords(n, l) ==
  LET nw == Split(n)
      lw == Split(l)
  IN  IF 2 * OverlapStart(nw, lw) > Len(nw) \/ 2 * OverlapEnd(nw, lw) > Len(nw)
        THEN FALSE
      ELSE IF Cardinality(SeqToSet(nw) \ SeqToSet(lw)) >= 2 THEN TRUE
      ELSE IF 2 * Len(n) > 3 * Len(l) THEN TRUE
      ELSE Len(n) > 3 /\ Len(l) > 3 /\ n # l

\* rules 1 to 9 in order
RulesInOrder(n, l) ==
  IF l = <<>> THEN TRUE
  ELSE IF n = l THEN FALSE
  ELSE IF IsSubstr(n, l) THEN FALSE
  ELSE IF IsSubstr(l, n) THEN 10 * Len(n) > 13 * Len(l)
  ELSE RulesOnWords(n, l)

\* C33: is_new_content(new, last) is, for every pair of texts, the result of
\* rules 1 to 9 evaluated in order on the case-insensitive,
\* whitespace-normalized texts (stated for the texts the loop passes: neither
\* is blank).
C33_RulesOnNormalizedTexts ==
  (dd_done /\ Strip(new_text) # <<>> /\ Strip(last_text) # <<>>) =>
    (is_new <=> RulesInOrder(WhitespaceNormalized(new_text),
                             WhitespaceNormalized(last_text)))

(***************************************************************************)
(* Claims about the matches of one utterance (SpecMatch)                   *)
(***************************************************************************)
\* C34: when the action of one match of an utterance fails (an unknown
\* action, an exception of the output sink), the failure is counted in the
\* error counter and every remaining match of the utterance is still
\* executed, in match order.
C34_FailureIsolation ==
  [][mx_pending # <<>> =>
       /\ mx_done' = Append(mx_done, Head(mx_pending))
       /\ engine'.total_commands + engine'.errors > engine.total_commands + engine.errors
       /\ engine'.errors >= mx_errors0 + mx_failures']_vars

(***************************************************************************)
(* Claims about consecutive utterances (SpecUtter)                         *)
(***************************************************************************)
\* what the callback handed to the injector in this step
Handed == SubSeq(sink', Len(sink) + 1, Len(sink'))

\* C35: an utterance that consists solely of a command phrase has its action
\* executed and no literal text injected, also while dictating: the clean-up
\* of the text leaves no residue (such as an appended '.') to be typed.
C35_CommandAloneTypesNothing ==
  [][\A k \in 1..Len(EngineConfig.commands) :
       (ut_count' = ut_count + 1 /\ ut_text' = EngineConfig.commands[k].phrase) =>
         /\ engine'.total_commands = engine.total_commands + 1
         /\ \A j \in 1..Len(Handed) : Handed[j].text = <<>>
         /\ engine'.last_injected_text = engine.last_injected_text]_vars

\* the texts among what the callback handed to the injector in this step
TextsHanded == SelectSeq(Handed, LAMBDA h : h.text # <<>>)

WhitespaceClean(t) ==
  /\ t # <<>> => ~IsSpace(t[1]) /\ ~IsSpace(t[Len(t)])
  /\ \A i \in 1..(Len(t) - 1) : ~(IsSpace(t[i]) /\ IsSpace(t[i + 1]))

\* C36: for every text and every match list, the empty list included, the
\* result of extract_clean_text has every whitespace run collapsed to a
\* single space and no leading or trailing whitespace.
C36_CleanTextNormalized == cp_done => WhitespaceClean(clean_text)

\* the phrase w occurs in t as a whole word at 0-based position s
Occurs(t, w, s) == MatchAt(Lower(t), Lower(w), s)

\* process_text returned a match of the configured command c
Matched(c) ==
  \E k \in 1..Len(matches) :
    /\ matches[k].command = c.phrase
    /\ matches[k].action = c.action
    /\ matches[k].confidence = 100

\* C37: the phrases of START_DICTATION and STOP_DICTATION are matched whether
\* or not the command-mode word occurs in the text; the phrase of any other
\* stop-class action (a name that starts with STOP_) is matched only when the
\* command-mode word occurs in the text as a whole word.
C37_CommandModeGating ==
  (cp_done /\ cp_confidence >= cp_config.confidence_threshold) =>
    \A k \in 1..Len(cp_config.commands) :
      LET c == cp_config.commands[k]
          occurs == \E s \in 0..Len(cp_text) : Occurs(cp_text, c.phrase, s)
          mode == \E s \in 0..Len(cp_text) :
                    Occurs(cp_text, cp_config.command_mode_word, s)
      IN  IF c.action \in {"START_DICTATION", "STOP_DICTATION"}
            THEN Matched(c) <=> occurs
          ELSE IF c.action \in StopClass
            THEN Matched(c) <=> (occurs /\ mode)
          ELSE Matched(c) <=> occurs

\* outside command mode a text with the phrases of STOP_ALL and
\* STOP_DICTATION gave the sentinel and no STOP_ALL
C37_Witness ==
  /\ cp_done
  /\ cp_config = ConfigMode
  /\ ~CommandModeActive(cp_config, cp_text)
  /\ \E s \in 0..Len(cp_text) : Occurs(cp_text, Str1("a"), s)
  /\ matches # <<>>
  /\ \A k \in 1..Len(matches) : matches[k].action = "STOP_DICTATION"

\* the words configured for a punctuation action
PunctWords(config, action) ==
  IF action = "KEY_DOT" THEN config.sentence_end_words
  ELSE IF action = "KEY_COMMA" THEN config.comma_words
  ELSE config.question_words

PunctActions == {"KEY_DOT", "KEY_COMMA", "KEY_QUESTION"}

\* the positions in the match list of the punctuation matches (a command
\* match has confidence 1.0, a punctuation match 0.9)
PunctIndices == {k \in 1..Len(matches) : matches[k].confidence = 90}

\* C38: process_text returns punctuation matches (KEY_DOT, KEY_COMMA,
\* KEY_QUESTION for the whole-word occurrences of the configured words)
\* exactly when auto_punctuation is enabled and the text does not contain the
\* command-mode word; otherwise it returns none.  (For a text at or above
\* the confidence threshold.)
C38_PunctuationGating ==
  (cp_done /\ cp_confidence >= cp_config.confidence_threshold) =>
    LET on == /\ cp_config.auto_punctuation
              /\ ~\E s \in 0..Len(cp_text) :
                    Occurs(cp_text, cp_config.command_mode_word, s)
    IN  /\ ~on => PunctIndices = {}
        /\ \A k \in PunctIndices :
             /\ matches[k].action \in PunctActions
             /\ \E i \in 1..Len(PunctWords(cp_config, matches[k].action)) :
                  LET w == PunctWords(cp_config, matches[k].action)[i]
                  IN  /\ Occurs(cp_text, w, matches[k].start_pos)
                      /\ matches[k].end_pos = matches[k].start_pos + Len(w)
        /\ on =>
             \A a \in PunctActions :
               \A i \in 1..Len(PunctWords(cp_config, a)) :
                 \A s \in 0..Len(cp_text) :
                   Occurs(cp_text, PunctWords(cp_config, a)[i], s) =>
                     \E k \in PunctIndices :
                       /\ matches[k].action = a
                       /\ matches[k].start_pos <= s
                       /\ s < matches[k].end_pos

\* a text with a sentence-end word and a comma word gave both punctuation
\* matches, with auto punctuation on and no command-mode word in the text
C38_Witness ==
  /\ cp_done
  /\ cp_config = ConfigMode
  /\ {matches[k].action : k \in PunctIndices} = {"KEY_DOT", "KEY_COMMA"}

(***************************************************************************)
(* Claims about the hotkey (SpecHotkey)                                    *)
(***************************************************************************)
\* C40: one press of the hotkey chord toggles dictation exactly once: the
\* callback fires when the set of pressed keys first holds every key of the
\* chord and not again on further key-press events (auto-repeat, another
\* key pressed while the chord is held) until a key of the chord has been
\* released.
C40_OneToggle == hold_fires <= 1

====
